---- MODULE Spec2Model ----
(***************************************************************************)
(* EcoPackAI backend: the four rule-based calculators (DimensionOptimizer, *)
(* MaterialSelector, StrengthPredictor, SustainabilityAnalyzer) and the    *)
(* process that shares one instance of each (backend/app.py).              *)
(*                                                                         *)
(* Units.  The source computes on floats; the model computes on exact      *)
(* integers and rationals:                                                 *)
(*   lengths          half centimetres   (18 cm is 36)                     *)
(*   volumes          1/8 cm^3 when built from lengths                     *)
(*   weights          grams              (0.5 kg is 500)                   *)
(*   selection score  tenths of a point  (19.6 points is 196)              *)
(*   cost_factor, co2_per_kg, energy_kwh   tenths                          *)
(*   strength factors hundredths         (0.98 is 98)                      *)
(*   thickness factor thousandths        (0.005 is 5)                      *)
(*   every other real is a rational [n, d], d > 0, in lowest terms         *)
(***************************************************************************)
EXTENDS Integers, Sequences, FiniteSets, TLC

\* materials, category_priorities   the MaterialSelector instance's tables
\* material_properties               the StrengthPredictor instance's table
\* thickness_factors                 the SustainabilityAnalyzer instance's table
\* request    the request received and not yet handled, or None
\* call       the last completed call: its arguments, locals and result
\* earlier    a call completed before that one, as an observer recorded it
VARIABLES materials, category_priorities, material_properties,
          thickness_factors, request, call, earlier

vars == <<materials, category_priorities, material_properties,
          thickness_factors, request, call, earlier>>

tables == <<materials, category_priorities, material_properties,
            thickness_factors>>

(***************************************************************************)
(* Arithmetic helpers                                                      *)
(***************************************************************************)
Max(a, b) == IF a >= b THEN a ELSE b

Min(a, b) == IF a <= b THEN a ELSE b

Abs(a) == IF a < 0 THEN -a ELSE a

RECURSIVE GCD(_, _)
GCD(a, b) == IF b = 0 THEN a ELSE GCD(b, a % b)

\* the rational n/d (d # 0) in lowest terms with a positive denominator
Rat(n, d) ==
    LET g == GCD(Abs(n), Abs(d))
        s == IF d < 0 THEN -1 ELSE 1
    IN  [n |-> s * (n \div g), d |-> s * (d \div g)]

RInt(k) == [n |-> k, d |-> 1]

RAdd(a, b) ==
    LET g == GCD(a.d, b.d)
    IN  Rat(a.n * (b.d \div g) + b.n * (a.d \div g), (a.d \div g) * b.d)

RSub(a, b) == RAdd(a, [n |-> -b.n, d |-> b.d])

\* cross-cancelling keeps the intermediate products small
RMul(a, b) ==
    LET g1 == GCD(Abs(a.n), b.d)
        g2 == GCD(Abs(b.n), a.d)
    IN  Rat((a.n \div g1) * (b.n \div g2), (a.d \div g2) * (b.d \div g1))

\* b # 0
RDiv(a, b) == RMul(a, Rat(b.d, b.n))

RLe(a, b) == RSub(a, b).n <= 0

RLt(a, b) == RSub(a, b).n < 0

RMax(a, b) == IF RLe(b, a) THEN a ELSE b

RMin(a, b) == IF RLe(a, b) THEN a ELSE b

None == "None"

\* an exception raised by a calculator, as the caller sees it
Raised(kind) == [error |-> kind]

IsError(r) == "error" \in DOMAIN r

(***************************************************************************)
(* DimensionOptimizer.optimize                                             *)
(***************************************************************************)
\* the default of .get taken from the first entry instead of the third
base_padding_default_low(fragility) ==
    CASE fragility = 1 -> 3
      [] fragility = 2 -> 4
      [] fragility = 3 -> 5
      [] fragility = 4 -> 6
      [] fragility = 5 -> 7
      [] OTHER -> 3

\* padding_multiplier.get(fragility, 2.5), half centimetres
base_padding(fragility) ==
    CASE fragility = 1 -> 3
      [] fragility = 2 -> 4
      [] fragility = 3 -> 5
      [] fragility = 4 -> 6
      [] fragility = 5 -> 7
      [] OTHER -> 5

\* the factors of the two middle bands exchanged
weight_factor_swapped(weight) ==
    IF weight > 10000 THEN 4
    ELSE IF weight > 5000 THEN 2
    ELSE IF weight > 2000 THEN 3
    ELSE 1

\* the weight bands, half centimetres; weight in grams
weight_factor(weight) ==
    IF weight > 10000 THEN 4
    ELSE IF weight > 5000 THEN 3
    ELSE IF weight > 2000 THEN 2
    ELSE 1

\* the dimension rounded down instead of up
FloorCm(x) == 2 * (x \div 2)

\* np.ceil to a whole centimetre, on half centimetres
CeilCm(x) == 2 * ((x + 1) \div 2)

\* max(np.ceil(product + padding), 5.0)
optimal_dim(product, padding) == Max(CeilCm(product + padding), 10)

\* the width taken twice, the height never
box_volume_width_twice(l, w, h) == l * w * w

\* optimal_length * optimal_width * optimal_height
box_volume(l, w, h) == l * w * h

space_utilization(product_volume, boxvol) ==
    RMul(Rat(product_volume, boxvol), RInt(100))

optimize(product_length, product_width, product_height, weight, fragility) ==
    LET padding == base_padding(fragility) + weight_factor(weight)
        optimal_length == optimal_dim(product_length, padding)
        optimal_width == optimal_dim(product_width, padding)
        optimal_height == optimal_dim(product_height, padding)
        product_volume == product_length * product_width * product_height
        boxvol == box_volume(optimal_length, optimal_width, optimal_height)
    IN  [length |-> optimal_length,
         width |-> optimal_width,
         height |-> optimal_height,
         volume |-> boxvol,
         space_utilization |-> space_utilization(product_volume, boxvol),
         padding_applied |-> [length |-> padding,
                              width |-> padding,
                              height |-> padding]]

(***************************************************************************)
(* MaterialSelector: the tables built by __init__                          *)
(***************************************************************************)
Material(name, thickness, cost, sust, rating, best, limit, fmax, co2, water, energy) ==
    [name |-> name,
     thickness |-> thickness,
     recyclable |-> TRUE,
     biodegradable |-> TRUE,
     cost_factor |-> cost,
     sustainability_score |-> sust,
     strength_rating |-> rating,
     best_for |-> best,
     weight_limit |-> limit,
     fragility_max |-> fmax,
     environmental_impact |-> [co2_per_kg |-> co2,
                               water_usage_liters |-> water,
                               energy_kwh |-> energy]]

\* self.materials: a dict, which keeps its declaration order
MaterialsInit ==
    << [key |-> "recycled_cardboard",
        material |-> Material("Recycled Cardboard", "3mm", 9, 95, "Medium",
                              <<"books", "apparel", "toys">>, 3000, 3, 8, 20, 25)],
       [key |-> "double_wall_corrugated",
        material |-> Material("Double-Wall Corrugated Cardboard", "7mm", 15, 82, "High",
                              <<"heavy_items", "machinery">>, 15000, 4, 12, 35, 40)],
       [key |-> "kraft_paper",
        material |-> Material("100% Recycled Kraft Paper", "2mm", 8, 98, "Low-Medium",
                              <<"lightweight", "apparel", "documents">>, 1500, 2, 6, 15, 20)],
       [key |-> "foam_insert_cardboard",
        material |-> Material("Recycled Cardboard with Biodegradable Foam", "5mm", 13, 88, "High",
                              <<"electronics", "fragile_items">>, 5000, 5, 10, 25, 32)],
       [key |-> "food_grade_cardboard",
        material |-> Material("Food-Grade Biodegradable Cardboard", "4mm", 11, 92, "Medium-High",
                              <<"food", "cosmetics">>, 4000, 3, 9, 22, 28)],
       [key |-> "molded_pulp",
        material |-> Material("Molded Pulp (Recycled Paper)", "6mm", 12, 96, "Medium-High",
                              <<"electronics", "eggs", "produce">>, 3500, 4, 7, 18, 23)],
       [key |-> "honeycomb_cardboard",
        material |-> Material("Honeycomb Cardboard", "8mm", 16, 85, "Very High",
                              <<"heavy_items", "furniture", "machinery">>, 20000, 4, 11, 30, 38)] >>

CategoryPrefs(priority, preferred, min_strength) ==
    [priority |-> priority,
     preferred_materials |-> preferred,
     min_strength |-> min_strength]

\* self.category_priorities
CategoryPrioritiesInit ==
    [c \in {"electronics", "food", "cosmetics", "apparel", "books", "toys", "other"} |->
       CASE c = "electronics" ->
              CategoryPrefs("protection", <<"foam_insert_cardboard", "molded_pulp">>, "High")
         [] c = "food" ->
              CategoryPrefs("safety", <<"food_grade_cardboard", "molded_pulp">>, "Medium")
         [] c = "cosmetics" ->
              CategoryPrefs("presentation", <<"food_grade_cardboard", "kraft_paper">>, "Medium")
         [] c = "apparel" ->
              CategoryPrefs("cost", <<"kraft_paper", "recycled_cardboard">>, "Low-Medium")
         [] c = "books" ->
              CategoryPrefs("cost", <<"recycled_cardboard", "kraft_paper">>, "Medium")
         [] c = "toys" ->
              CategoryPrefs("safety", <<"recycled_cardboard", "food_grade_cardboard">>, "Medium")
         [] c = "other" ->
              CategoryPrefs("balance", <<"recycled_cardboard">>, "Medium")]

\* self.materials[k]
MaterialByKey(mats, k) ==
    LET i == CHOOSE j \in DOMAIN mats : mats[j].key = k
    IN  mats[i].material

SeqToSet(s) == {s[i] : i \in DOMAIN s}

(***************************************************************************)
(* MaterialSelector.select                                                 *)
(***************************************************************************)
\* str.lower() on the category strings the model sends
Lower(s) ==
    CASE s = "ELECTRONICS" -> "electronics"
      [] s = "Food" -> "food"
      [] s = "Other" -> "other"
      [] OTHER -> s

\* category.lower() if category else 'other'
normalize_category(category) ==
    IF category = None \/ category = "" THEN "other" ELSE Lower(category)

\* an unknown category scored with the first profile of the table
category_prefs_or_first(prios, category) ==
    IF category \in DOMAIN prios THEN prios[category] ELSE prios["electronics"]

\* self.category_priorities.get(category, self.category_priorities['other'])
category_prefs(prios, category) ==
    IF category \in DOMAIN prios THEN prios[category] ELSE prios["other"]

\* `<` for `<=`: a material loaded to its limit is left out too
skips_at_limit(weight, material) == weight >= material.weight_limit

\* the `continue` left out: an overloaded material is scored like the others
skips_never(weight, material) == FALSE

\* the else branch of criterion 1: `continue`, the material gets no entry
skips(weight, material) == weight > material.weight_limit

\* 1. weight compatibility; weight_ratio = weight / weight_limit
weight_points(weight, material) ==
    IF weight <= material.weight_limit
    THEN IF 2 * weight < material.weight_limit
         THEN [points |-> 300, reasons |-> << <<"Excellent weight capacity">> >>]
         ELSE IF 4 * weight < 3 * material.weight_limit
         THEN [points |-> 250, reasons |-> << <<"Good weight capacity">> >>]
         ELSE [points |-> 200, reasons |-> << <<"Adequate weight capacity">> >>]
    ELSE [points |-> 0, reasons |-> << <<"Insufficient weight capacity">> >>]

\* the outer comparison the wrong way round
fragility_points_inverted(fragility, material) ==
    IF fragility > material.fragility_max
    THEN IF fragility >= 4 /\ material.strength_rating \in {"High", "Very High"}
         THEN [points |-> 250, reasons |-> << <<"Excellent protection for fragile items">> >>]
         ELSE IF fragility >= 4
         THEN [points |-> 150, reasons |-> << <<"Moderate protection for fragile items">> >>]
         ELSE [points |-> 200, reasons |-> << <<"Suitable protection level">> >>]
    ELSE [points |-> 50, reasons |-> << <<"May not provide sufficient protection">> >>]

\* 2. fragility handling
fragility_points(fragility, material) ==
    IF fragility <= material.fragility_max
    THEN IF fragility >= 4 /\ material.strength_rating \in {"High", "Very High"}
         THEN [points |-> 250, reasons |-> << <<"Excellent protection for fragile items">> >>]
         ELSE IF fragility >= 4
         THEN [points |-> 150, reasons |-> << <<"Moderate protection for fragile items">> >>]
         ELSE [points |-> 200, reasons |-> << <<"Suitable protection level">> >>]
    ELSE [points |-> 50, reasons |-> << <<"May not provide sufficient protection">> >>]

\* 3. sustainability: (sustainability_score / 100) * 20
sustainability_points(material) ==
    [points |-> 2 * material.sustainability_score,
     reasons |-> IF material.sustainability_score >= 95
                 THEN << <<"Exceptional sustainability">> >>
                 ELSE IF material.sustainability_score >= 85
                 THEN << <<"High sustainability">> >>
                 ELSE << >>]

\* the elif comparing strength ratings instead of whole records
category_points_by_rating(mats, material_key, material, cat_prefs, category) ==
    IF material_key \in SeqToSet(cat_prefs.preferred_materials)
    THEN [points |-> 150, reasons |-> << <<"Optimized for", category, "category">> >>]
    ELSE IF \E k \in SeqToSet(cat_prefs.preferred_materials) :
                MaterialByKey(mats, k).strength_rating = material.strength_rating
    THEN [points |-> 100, reasons |-> << <<"Suitable for", category, "category">> >>]
    ELSE [points |-> 50, reasons |-> << >>]

\* 4. category match; the elif compares whole material records
category_points(mats, material_key, material, cat_prefs, category) ==
    IF material_key \in SeqToSet(cat_prefs.preferred_materials)
    THEN [points |-> 150, reasons |-> << <<"Optimized for", category, "category">> >>]
    ELSE IF \E k \in SeqToSet(cat_prefs.preferred_materials) :
                MaterialByKey(mats, k) = material
    THEN [points |-> 100, reasons |-> << <<"Suitable for", category, "category">> >>]
    ELSE [points |-> 50, reasons |-> << >>]

\* 5. recyclability
recyclability_points(recyclable_priority, material) ==
    IF recyclable_priority /\ material.recyclable
    THEN [points |-> 100, reasons |-> << <<"Fully recyclable">> >>]
    ELSE IF material.recyclable
    THEN [points |-> 70, reasons |-> << >>]
    ELSE [points |-> 0, reasons |-> << >>]

\* 6. cost efficiency
cost_points(material) ==
    IF material.cost_factor <= 10
    THEN [points |-> 100, reasons |-> << <<"Cost-effective">> >>]
    ELSE IF material.cost_factor <= 13
    THEN [points |-> 70, reasons |-> << <<"Moderate cost">> >>]
    ELSE [points |-> 40, reasons |-> << <<"Premium pricing">> >>]

\* the body of the scoring loop for one material that is not skipped
score_material(mats, material_key, material, cat_prefs, category, weight, fragility, recyclable_priority) ==
    LET c1 == weight_points(weight, material)
        c2 == fragility_points(fragility, material)
        c3 == sustainability_points(material)
        c4 == category_points(mats, material_key, material, cat_prefs, category)
        c5 == recyclability_points(recyclable_priority, material)
        c6 == cost_points(material)
    IN  [key |-> material_key,
         score |-> c1.points + c2.points + c3.points + c4.points
                   + c5.points + c6.points,
         reasons |-> c1.reasons \o c2.reasons \o c3.reasons \o c4.reasons
                     \o c5.reasons \o c6.reasons,
         material |-> material]

\* material_scores[key] = entry: a dict keeps a key's first position
dict_set(d, entry) ==
    IF \E i \in DOMAIN d : d[i].key = entry.key
    THEN [i \in DOMAIN d |-> IF d[i].key = entry.key THEN entry ELSE d[i]]
    ELSE Append(d, entry)

\* material_scores kept on the instance: the entries of the last select stay
stale_material_scores ==
    IF call.op = "select" THEN call.material_scores ELSE << >>

\* material_scores = {} at the start of each call
new_material_scores == << >>

\* the scoring loop over self.materials.items(), from material i on
RECURSIVE score_loop(_, _, _, _, _, _, _, _)
score_loop(mats, i, scores, cat_prefs, category, weight, fragility, recyclable_priority) ==
    IF i > Len(mats) THEN scores
    ELSE LET material_key == mats[i].key
             material == mats[i].material
             next == IF skips(weight, material) THEN scores
                     ELSE dict_set(scores,
                                   score_material(mats, material_key, material,
                                                  cat_prefs, category, weight,
                                                  fragility, recyclable_priority))
         IN  score_loop(mats, i + 1, next, cat_prefs, category, weight,
                        fragility, recyclable_priority)

\* the last entry with the largest score instead of the first
best_index_last(scores) ==
    CHOOSE i \in DOMAIN scores :
        /\ \A j \in DOMAIN scores : scores[j].score <= scores[i].score
        /\ \A j \in (i + 1)..Len(scores) : scores[j].score < scores[i].score

\* max(material_scores, key=score): the first entry with the largest score
best_index(scores) ==
    CHOOSE i \in DOMAIN scores :
        /\ \A j \in DOMAIN scores : scores[j].score <= scores[i].score
        /\ \A j \in 1..(i - 1) : scores[j].score < scores[i].score

\* sorted(material_scores.items(), key=score, reverse=True): stable
sorted_by_score(scores) ==
    LET before(j, i) ==
            \/ scores[j].score > scores[i].score
            \/ scores[j].score = scores[i].score /\ j < i
        rank(i) == Cardinality({j \in DOMAIN scores : before(j, i)}) + 1
    IN  [r \in DOMAIN scores |-> scores[CHOOSE i \in DOMAIN scores : rank(i) = r]]

alternative_of(data) ==
    [name |-> data.material.name,
     score |-> data.score,
     thickness |-> data.material.thickness,
     cost_factor |-> data.material.cost_factor,
     sustainability_score |-> data.material.sustainability_score]

\* the test `material_key != selected_key` left out
get_alternatives_with_selected(scores, selected_key, count) ==
    LET others == sorted_by_score(scores)
        top == SubSeq(others, 1, Min(count, Len(others)))
    IN  [i \in DOMAIN top |-> alternative_of(top[i])]

\* _get_alternatives(material_scores, selected_key, count=2)
get_alternatives(scores, selected_key, count) ==
    LET others == SelectSeq(sorted_by_score(scores),
                            LAMBDA data : data.key # selected_key)
        top == SubSeq(others, 1, Min(count, Len(others)))
    IN  [i \in DOMAIN top |-> alternative_of(top[i])]

\* best_match['material'].copy() with the three fields set on the copy
selected_record(best_match, alternatives) ==
    [selection_score |-> best_match.score,
     selection_reasons |-> best_match.reasons,
     alternatives |-> alternatives] @@ best_match.material

\* select from `best_material_key = max(...)` on; max() of an empty dict raises
pick_best(material_scores) ==
    IF material_scores = << >>
    THEN [material_scores |-> material_scores,
          best_material_key |-> None,
          result |-> Raised("ValueError")]
    ELSE LET best_match == material_scores[best_index(material_scores)]
         IN  [material_scores |-> material_scores,
              best_material_key |-> best_match.key,
              result |-> selected_record(
                  best_match,
                  get_alternatives(material_scores, best_match.key, 2))]

\* the locals and the return value of select
select(mats, prios, category_arg, weight, fragility, recyclable_priority) ==
    LET category == normalize_category(category_arg)
        cat_prefs == category_prefs(prios, category)
    IN  pick_best(score_loop(mats, 1, new_material_scores, cat_prefs, category,
                             weight, fragility, recyclable_priority))

\* .copy() left out: the three fields are set on the catalog entry itself
materials_aliased(mats, best_material_key, selected) ==
    [i \in DOMAIN mats |->
       IF mats[i].key = best_material_key
       THEN [key |-> best_material_key, material |-> selected]
       ELSE mats[i]]

\* self.materials after select: the fields were set on a copy
materials_after_select(mats, best_material_key, selected) == mats

(***************************************************************************)
(* StrengthPredictor                                                       *)
(***************************************************************************)
StrengthProps(base, tensile, compression, durability) ==
    [base_strength |-> base,
     tensile_strength |-> tensile,
     compression |-> compression,
     durability |-> durability]

\* self.material_properties; the factors in hundredths
MaterialPropertiesInit ==
    [name \in {"Recycled Cardboard", "Double-Wall Corrugated Cardboard",
               "100% Recycled Kraft Paper",
               "Recycled Cardboard with Biodegradable Foam",
               "Food-Grade Biodegradable Cardboard", "Foam Insert Box"} |->
       CASE name = "Recycled Cardboard" -> StrengthProps(75, 150, 70, 80)
         [] name = "Double-Wall Corrugated Cardboard" -> StrengthProps(95, 250, 92, 88)
         [] name = "100% Recycled Kraft Paper" -> StrengthProps(65, 120, 60, 70)
         [] name = "Recycled Cardboard with Biodegradable Foam" -> StrengthProps(85, 180, 85, 90)
         [] name = "Food-Grade Biodegradable Cardboard" -> StrengthProps(80, 160, 78, 82)
         [] name = "Foam Insert Box" -> StrengthProps(85, 140, 88, 85)]

\* the fallback taken from the strongest entry of the table
props_or_double_wall(props, material_name) ==
    IF material_name \in DOMAIN props THEN props[material_name]
    ELSE props["Double-Wall Corrugated Cardboard"]

\* the fallback taken from another entry of the table
props_or_foam_insert(props, material_name) ==
    IF material_name \in DOMAIN props THEN props[material_name]
    ELSE props["Foam Insert Box"]

\* self.material_properties.get(material_name, <the Recycled Cardboard entry>)
props_or_default(props, material_name) ==
    IF material_name \in DOMAIN props THEN props[material_name]
    ELSE props["Recycled Cardboard"]

\* volume / (weight * 1000) if weight_grams > 0 else 0; cm^3 per gram
vw_ratio(volume, weight_grams) ==
    IF weight_grams > 0 THEN Rat(volume, 8 * weight_grams) ELSE RInt(0)

\* the bands of the volume-weight ratio, hundredths
strength_factor(ratio) ==
    IF RLt(RInt(500), ratio) THEN 98
    ELSE IF RLt(RInt(300), ratio) THEN 92
    ELSE IF RLt(RInt(150), ratio) THEN 85
    ELSE IF RLt(RInt(75), ratio) THEN 75
    ELSE 65

fragility_factor(fragility, base_strength) ==
    IF fragility >= 4 /\ base_strength < 80 THEN 90
    ELSE IF fragility >= 4 THEN 105
    ELSE IF fragility <= 2 THEN 102
    ELSE 100

\* max_dim / min_dim if min_dim > 0 else 10
aspect_ratio(dimensions) ==
    LET max_dim == Max(dimensions.length, Max(dimensions.width, dimensions.height))
        min_dim == Min(dimensions.length, Min(dimensions.width, dimensions.height))
    IN  IF min_dim > 0 THEN Rat(max_dim, min_dim) ELSE RInt(10)

geometry_factor(ratio) ==
    IF RLt(ratio, RInt(2)) THEN 105
    ELSE IF RLt(ratio, RInt(3)) THEN 100
    ELSE 92

\* the lower clamp left out
clamp_score_upper_only(lowest, percent) == Min(98, percent)

\* min(98, max(lowest, int(raw * 100))), raw * 100 already truncated
clamp_score(lowest, percent) == Min(98, Max(lowest, percent))

\* the fragile-product test placed before the heavy-product test
reinforcement_fragile_first(strength_score, weight, fragility) ==
    IF strength_score < 70
    THEN [needs |-> TRUE, reason |-> "Low overall strength score"]
    ELSE IF fragility >= 4 /\ strength_score < 85
    THEN [needs |-> TRUE, reason |-> "Fragile product requires better protection"]
    ELSE IF weight > 5000 /\ strength_score < 80
    THEN [needs |-> TRUE, reason |-> "Heavy product requires stronger material"]
    ELSE [needs |-> FALSE, reason |-> None]

\* the if / elif / elif chain that decides the reinforcement
reinforcement(strength_score, weight, fragility) ==
    IF strength_score < 70
    THEN [needs |-> TRUE, reason |-> "Low overall strength score"]
    ELSE IF weight > 5000 /\ strength_score < 80
    THEN [needs |-> TRUE, reason |-> "Heavy product requires stronger material"]
    ELSE IF fragility >= 4 /\ strength_score < 85
    THEN [needs |-> TRUE, reason |-> "Fragile product requires better protection"]
    ELSE [needs |-> FALSE, reason |-> None]

get_rating(score) ==
    IF score >= 90 THEN "Excellent"
    ELSE IF score >= 80 THEN "Very Good"
    ELSE IF score >= 70 THEN "Good"
    ELSE IF score >= 60 THEN "Adequate"
    ELSE "Needs Improvement"

rate_material(base_strength) ==
    IF base_strength >= 90 THEN "Premium"
    ELSE IF base_strength >= 80 THEN "High Quality"
    ELSE IF base_strength >= 70 THEN "Standard"
    ELSE "Economy"

predict(props, dimensions, material_name, weight, fragility) ==
    LET material_props == props_or_default(props, material_name)
        base_strength == material_props.base_strength
        volume == dimensions.length * dimensions.width * dimensions.height
        ratio == vw_ratio(volume, weight)
        sf == strength_factor(ratio)
        ff == fragility_factor(fragility, base_strength)
        gf == geometry_factor(aspect_ratio(dimensions))
        strength_score ==
            clamp_score(60, (base_strength * sf * ff * gf) \div 1000000)
        durability_score ==
            clamp_score(60, (material_props.durability * sf) \div 100)
        compression_score ==
            clamp_score(65, (material_props.compression * gf) \div 100)
        r == reinforcement(strength_score, weight, fragility)
    IN  [strength |-> strength_score,
         durability |-> durability_score,
         compression_resistance |-> compression_score,
         overall_rating |-> get_rating(strength_score),
         needs_reinforcement |-> r.needs,
         reinforcement_reason |-> r.reason,
         analysis |-> [volume_weight_ratio |-> ratio,
                       geometry_rating |-> IF gf > 100 THEN "Excellent"
                                           ELSE IF gf = 100 THEN "Good"
                                           ELSE "Fair",
                       material_rating |-> rate_material(base_strength),
                       load_distribution |-> IF sf > 85 THEN "Optimal"
                                             ELSE IF sf > 75 THEN "Adequate"
                                             ELSE "Needs Improvement"]]

\* the drop height taken in centimetres: height_m = height_cm
impact_energy_height_in_cm(weight, height_cm) ==
    RMul(RMul(Rat(weight, 1000), Rat(981, 100)), RInt(height_cm))

\* weight * 9.81 * (height_cm / 100), joules; weight in grams
impact_energy(weight, height_cm) ==
    RMul(RMul(Rat(weight, 1000), Rat(981, 100)), Rat(height_cm, 100))

\* the predict(..., 5) call at the top returns for every name and its result
\* is not used; self.material_properties.get(material_name) is None for an
\* unknown name, and None['tensile_strength'] raises
predict_drop_test(props, dimensions, material_name, weight, height_cm) ==
    LET energy == impact_energy(weight, height_cm)
    IN  IF material_name \notin DOMAIN props THEN Raised("TypeError")
        ELSE LET max_impact == Rat(props[material_name].tensile_strength, 2)
                 will_survive == RLt(energy, max_impact)
                 safety_margin ==
                     RMul(RDiv(RSub(max_impact, energy), max_impact), RInt(100))
             IN  [will_survive |-> will_survive,
                  safety_margin |-> RMax(RInt(0), safety_margin),
                  impact_energy |-> energy,
                  material_capacity |-> max_impact,
                  recommendation |-> IF will_survive THEN "Safe for transport"
                                     ELSE "Requires additional protection"]

(***************************************************************************)
(* SustainabilityAnalyzer                                                  *)
(***************************************************************************)
\* self.traditional_metrics
over_packaging_factor == Rat(16, 10)

co2_per_kg_cardboard == Rat(12, 10)

water_per_kg_cardboard == RInt(40)

energy_per_kg_cardboard == RInt(5)

\* self.cardboard_density, kg/m^3
cardboard_density == 700

\* truck_capacity = 80000000 cm^3, in millions of cm^3: the units per truck
\* are counted in millions
truck_capacity == 80

\* self.thickness_factors, thousandths
ThicknessFactorsInit ==
    [t \in {"2mm", "3mm", "4mm", "5mm", "6mm", "7mm", "8mm"} |->
       CASE t = "2mm" -> 3
         [] t = "3mm" -> 5
         [] t = "4mm" -> 6
         [] t = "5mm" -> 8
         [] t = "6mm" -> 10
         [] t = "7mm" -> 12
         [] t = "8mm" -> 14]

\* dict.get(key, default) on a record
Get(d, key, default) == IF key \in DOMAIN d THEN d[key] ELSE default

\* length * width * height of a dimensions dict, cm^3
volume_of(dims) == Rat(dims.length * dims.width * dims.height, 8)

\* _calculate_surface_area, cm^2
calculate_surface_area(dimensions) ==
    LET l == dimensions.length
        w == dimensions.width
        h == dimensions.height
    IN  Rat(2 * (l * w + w * h + h * l), 4)

\* self.thickness_factors.get(material.get('thickness', '3mm'), 0.005)
thickness_factor(factors, material) ==
    Rat(Get(factors, Get(material, "thickness", "3mm"), 5), 1000)

\* (area / 10000) * self.cardboard_density * thickness_factor, kg
material_weight(area, factor) ==
    RMul(RMul(RDiv(area, RInt(10000)), RInt(cardboard_density)), factor)

\* (saved / traditional * 100) if traditional > 0 else 0
reduction_pct(saved, traditional) ==
    IF traditional.n > 0 THEN RMul(RDiv(saved, traditional), RInt(100))
    ELSE RInt(0)

\* the max(0, ..) left out
clamp_volume_reduction_upper_only(raw) == RMin(RInt(95), raw)

\* max(0, min(95, volume_reduction))
clamp_volume_reduction(raw) == RMax(RInt(0), RMin(RInt(95), raw))

\* _calculate_transport_efficiency; both volumes are nonzero here
calculate_transport_efficiency(traditional_vol, optimized_vol) ==
    LET traditional_units == RDiv(RInt(truck_capacity), traditional_vol)
        optimized_units == RDiv(RInt(truck_capacity), optimized_vol)
        efficiency_gain ==
            RMul(RDiv(RSub(optimized_units, traditional_units),
                      traditional_units), RInt(100))
    IN  RMax(RInt(0), RMin(RInt(100), efficiency_gain))

\* the weighted average returned as it is, without min(100, max(0, score))
calculate_sustainability_score_unclamped(volume_red, material_red, co2_red, material_score) ==
    RMul(RAdd(RAdd(RAdd(volume_red, material_red), co2_red), material_score),
         Rat(1, 4))

\* _calculate_sustainability_score
calculate_sustainability_score(volume_red, material_red, co2_red, material_score) ==
    LET quarter == Rat(1, 4)
        score == RAdd(RAdd(RAdd(RMul(volume_red, quarter),
                                RMul(material_red, quarter)),
                           RMul(co2_red, quarter)),
                      RMul(material_score, quarter))
    IN  RMin(RInt(100), RMax(RInt(0), score))

\* _get_environmental_rating
get_environmental_rating(score) ==
    IF RLe(RInt(90), score) THEN "Exceptional"
    ELSE IF RLe(RInt(80), score) THEN "Excellent"
    ELSE IF RLe(RInt(70), score) THEN "Very Good"
    ELSE IF RLe(RInt(60), score) THEN "Good"
    ELSE IF RLe(RInt(50), score) THEN "Fair"
    ELSE "Needs Improvement"

\* _calculate_annual_impact
calculate_annual_impact(co2_saved, water_saved, energy_saved, material_saved) ==
    LET annual_units == RInt(10000)
        total_co2 == RMul(co2_saved, annual_units)
        total_energy == RMul(energy_saved, annual_units)
        total_material == RMul(material_saved, annual_units)
    IN  [units_per_year |-> 10000,
         total_co2_saved_kg |-> total_co2,
         total_co2_saved_tons |-> RDiv(total_co2, RInt(1000)),
         total_water_saved_liters |-> RMul(water_saved, annual_units),
         total_energy_saved_kwh |-> total_energy,
         total_material_saved_kg |-> total_material,
         total_material_saved_tons |-> RDiv(total_material, RInt(1000)),
         equivalent_metrics |->
             [cars_off_road |-> RDiv(total_co2, RInt(4600)),
              trees_planted |-> RDiv(total_co2, RInt(21)),
              homes_powered_days |-> RDiv(total_energy, RInt(30))]]

\* the allowance of 10 cm left out: the baseline is the product's own size
traditional_dims_without_allowance(original_dims) ==
    [length |-> original_dims.length,
     width |-> original_dims.width,
     height |-> original_dims.height]

\* the traditional box: every original dimension plus 10 cm
traditional_dims(original_dims) ==
    [length |-> original_dims.length + 20,
     width |-> original_dims.width + 20,
     height |-> original_dims.height + 20]

\* analyze; the divisions by traditional_volume (volume reduction, units per
\* truck) and by optimized_vol raise ZeroDivisionError on a zero volume
analyze(factors, original_dims, optimized_dims, material, product_weight) ==
    LET product_volume == volume_of(original_dims)
        traditional_volume == RMul(product_volume, over_packaging_factor)
        optimized_volume == volume_of(optimized_dims)
    IN  IF traditional_volume.n = 0 \/ optimized_volume.n = 0
        THEN Raised("ZeroDivisionError")
        ELSE
        LET volume_reduction ==
                clamp_volume_reduction(
                    RMul(RDiv(RSub(traditional_volume, optimized_volume),
                              traditional_volume), RInt(100)))
            traditional_area ==
                calculate_surface_area(traditional_dims(original_dims))
            optimized_area == calculate_surface_area(optimized_dims)
            factor == thickness_factor(factors, material)
            traditional_material_weight == material_weight(traditional_area, factor)
            optimized_material_weight == material_weight(optimized_area, factor)
            material_saved_kg ==
                RSub(traditional_material_weight, optimized_material_weight)
            material_reduction_pct ==
                reduction_pct(material_saved_kg, traditional_material_weight)
            material_env == Get(material, "environmental_impact", << >>)
            co2_per_kg == Rat(Get(material_env, "co2_per_kg", 10), 10)
            traditional_co2 == RMul(traditional_material_weight, co2_per_kg_cardboard)
            optimized_co2 == RMul(optimized_material_weight, co2_per_kg)
            co2_saved == RSub(traditional_co2, optimized_co2)
            co2_reduction_pct == reduction_pct(co2_saved, traditional_co2)
            water_per_kg == RInt(Get(material_env, "water_usage_liters", 30))
            water_saved ==
                RSub(RMul(traditional_material_weight, water_per_kg_cardboard),
                     RMul(optimized_material_weight, water_per_kg))
            energy_per_kg == Rat(Get(material_env, "energy_kwh", 40), 10)
            energy_saved ==
                RSub(RMul(traditional_material_weight, energy_per_kg_cardboard),
                     RMul(optimized_material_weight, energy_per_kg))
            transport_efficiency ==
                calculate_transport_efficiency(traditional_volume, optimized_volume)
            sustainability_score ==
                calculate_sustainability_score(
                    volume_reduction, material_reduction_pct, co2_reduction_pct,
                    RInt(Get(material, "sustainability_score", 80)))
        IN  [volume_reduction |-> volume_reduction,
             material_saved_kg |-> material_saved_kg,
             material_reduction_percentage |-> material_reduction_pct,
             co2_saved_kg |-> co2_saved,
             co2_reduction_percentage |-> co2_reduction_pct,
             water_saved_liters |-> water_saved,
             energy_saved_kwh |-> energy_saved,
             trees_saved |-> RDiv(material_saved_kg, RInt(100)),
             transport_efficiency_gain |-> transport_efficiency,
             sustainability_score |-> sustainability_score,
             environmental_rating |-> get_environmental_rating(sustainability_score),
             details |-> [traditional_packaging |->
                              [volume_cm3 |-> traditional_volume,
                               material_kg |-> traditional_material_weight,
                               co2_kg |-> traditional_co2],
                          optimized_packaging |->
                              [volume_cm3 |-> optimized_volume,
                               material_kg |-> optimized_material_weight,
                               co2_kg |-> optimized_co2]],
             annual_impact |-> calculate_annual_impact(
                 co2_saved, water_saved, energy_saved, material_saved_kg)]

\* the catalog listed from its last entry to its first
get_all_materials_reversed(mats) ==
    [i \in DOMAIN mats |->
       [id |-> mats[Len(mats) + 1 - i].key,
        name |-> mats[Len(mats) + 1 - i].material.name,
        thickness |-> mats[Len(mats) + 1 - i].material.thickness,
        recyclable |-> mats[Len(mats) + 1 - i].material.recyclable,
        biodegradable |-> mats[Len(mats) + 1 - i].material.biodegradable,
        sustainability_score |-> mats[Len(mats) + 1 - i].material.sustainability_score,
        strength_rating |-> mats[Len(mats) + 1 - i].material.strength_rating,
        best_for |-> mats[Len(mats) + 1 - i].material.best_for,
        cost_factor |-> mats[Len(mats) + 1 - i].material.cost_factor]]

\* get_all_materials: one new dict per catalog entry, in catalog order
get_all_materials(mats) ==
    [i \in DOMAIN mats |->
       [id |-> mats[i].key,
        name |-> mats[i].material.name,
        thickness |-> mats[i].material.thickness,
        recyclable |-> mats[i].material.recyclable,
        biodegradable |-> mats[i].material.biodegradable,
        sustainability_score |-> mats[i].material.sustainability_score,
        strength_rating |-> mats[i].material.strength_rating,
        best_for |-> mats[i].material.best_for,
        cost_factor |-> mats[i].material.cost_factor]]

(***************************************************************************)
(* app.py: optimize_packaging                                              *)
(***************************************************************************)
\* utils.validators.validate_product_input: the ProductSpec preconditions
validate_product_input(data) ==
    IF \E f \in {"length", "width", "height", "weight", "category"} :
           f \notin DOMAIN data
    THEN [is_valid |-> FALSE, error_message |-> "missing field"]
    ELSE IF data.length <= 0 \/ data.width <= 0 \/ data.height <= 0
            \/ data.weight <= 0
    THEN [is_valid |-> FALSE, error_message |-> "must be positive"]
    ELSE IF Get(data, "fragility", 3) \notin 1..5
    THEN [is_valid |-> FALSE, error_message |-> "fragility out of range"]
    ELSE [is_valid |-> TRUE, error_message |-> None]

\* utils.helpers.calculate_savings: a cost delta, not computed by the model
calculate_savings(original_dims, optimized_dims, material, weight) ==
    [cost_saving_amount |-> "calculate_savings"]

\* the except clause: 500 with the exception's message
internal_server_error(steps, raised) ==
    [status |-> 500,
     steps |-> steps,
     body |-> [error |-> "Internal server error", message |-> raised.error]]

\* optimize_packaging on the request's JSON; steps lists the calls it made.
\* The response dict built in lines 129-156 and returned with 200
success_response(data, optimized_dims, material, strength_scores, sustainability) ==
    [status |-> 200,
     steps |-> <<"validate_product_input", "optimize", "select",
                 "predict", "analyze", "calculate_savings">>,
     body |->
       [success |-> TRUE,
        product |-> [name |-> Get(data, "product_name", None),
                     original_dimensions |-> [length |-> data.length,
                                              width |-> data.width,
                                              height |-> data.height],
                     category |-> data.category,
                     weight |-> data.weight,
                     fragility |-> Get(data, "fragility", 3)],
        optimized_design |->
            [dimensions |-> optimized_dims,
             volume |-> optimized_dims.length * optimized_dims.width
                        * optimized_dims.height,
             material |-> material,
             strength_analysis |-> strength_scores],
        sustainability |-> sustainability,
        savings |-> calculate_savings([length |-> data.length,
                                       width |-> data.width,
                                       height |-> data.height],
                                      optimized_dims, material, data.weight),
        recommendations |->
            << <<"Use", material.name>>,
               <<"Reduce packaging volume by", sustainability.volume_reduction>>,
               <<"Save per unit">> >>
            \o (IF Get(data, "stackable", FALSE) = TRUE
                THEN << <<"Consider stackable design for efficient storage">> >>
                ELSE << >>)]]

\* steps 4 to 7: the savings and the response, unless analyze raised
after_analyze(data, optimized_dims, material, strength_scores, sustainability) ==
    IF IsError(sustainability)
    THEN internal_server_error(
             <<"validate_product_input", "optimize", "select", "predict", "analyze">>,
             sustainability)
    ELSE success_response(data, optimized_dims, material, strength_scores,
                          sustainability)

\* original_dims = {'length': length, 'width': width, 'height': height}
original_dims_of(data) ==
    [length |-> data.length, width |-> data.width, height |-> data.height]

\* the arguments of the calls of steps 3 and 4, kept beside the response
received(predict_args, analyze_args) ==
    [received |->
       [predict |-> [dimensions |-> predict_args[1],
                     material_name |-> predict_args[2],
                     weight |-> predict_args[3],
                     fragility |-> predict_args[4]],
        analyze |-> [original_dims |-> analyze_args[1],
                     optimized_dims |-> analyze_args[2],
                     material |-> analyze_args[3],
                     product_weight |-> analyze_args[4]]]]

\* steps 3 and 4 on the given arguments, then the rest
call_predict_and_analyze(props, factors, data, optimized_dims, material, predict_args, analyze_args) ==
    after_analyze(
        data, optimized_dims, material,
        predict(props, predict_args[1], predict_args[2], predict_args[3],
                predict_args[4]),
        analyze(factors, analyze_args[1], analyze_args[2], analyze_args[3],
                analyze_args[4]))
    @@ received(predict_args, analyze_args)

\* the strength evaluator handed the product's own dimensions
after_select_product_dims(props, factors, data, optimized_dims, material) ==
    IF IsError(material)
    THEN internal_server_error(
             <<"validate_product_input", "optimize", "select">>, material)
    ELSE call_predict_and_analyze(
             props, factors, data, optimized_dims, material,
             <<original_dims_of(data), material.name, data.weight,
               Get(data, "fragility", 3)>>,
             <<original_dims_of(data), optimized_dims, material, data.weight>>)

\* steps 3 and 4: predict and analyze on the selected material, unless
\* select raised
after_select(props, factors, data, optimized_dims, material) ==
    IF IsError(material)
    THEN internal_server_error(
             <<"validate_product_input", "optimize", "select">>, material)
    ELSE call_predict_and_analyze(
             props, factors, data, optimized_dims, material,
             <<optimized_dims, material.name, data.weight,
               Get(data, "fragility", 3)>>,
             <<original_dims_of(data), optimized_dims, material, data.weight>>)

\* steps 1 and 2: optimize and select on the validated fields
after_validation(mats, prios, props, factors, data) ==
    after_select(
        props, factors, data,
        optimize(data.length, data.width, data.height, data.weight,
                 Get(data, "fragility", 3)),
        select(mats, prios, data.category, data.weight,
               Get(data, "fragility", 3), Get(data, "recyclable", TRUE)).result)

optimize_packaging(mats, prios, props, factors, data) ==
    IF ~validate_product_input(data).is_valid
    THEN [status |-> 400,
          steps |-> <<"validate_product_input">>,
          body |-> [error |-> validate_product_input(data).error_message]]
    ELSE after_validation(mats, prios, props, factors, data)

(***************************************************************************)
(* app.py: batch_optimize                                                  *)
(***************************************************************************)
\* a JSON object; an item of another JSON type is [json |-> <its type>]
is_dict(product) == "json" \notin DOMAIN product

\* results.append({'error': error, 'product': product.get('product_name')})
error_entry(product) ==
    [error |-> validate_product_input(product).error_message,
     product |-> Get(product, "product_name", None)]

\* dimension_optimizer.optimize on the raw fields, and the entry appended
success_entry(product) ==
    [product_name |-> Get(product, "product_name", None),
     optimized_dimensions |-> optimize(product.length, product.width,
                                       product.height, product.weight,
                                       Get(product, "fragility", 3)),
     status |-> "success"]

\* results and the calls made for each item so far, with one more item
batch_append(acc, entry, item_steps) ==
    [results |-> Append(acc.results, entry),
     steps |-> Append(acc.steps, item_steps)]

\* the for loop inside the try. An item that is no object raises whatever
\* the validator answers: product.get (line 331) and product['length']
\* (line 336) both fail on it, and nothing inside the loop catches
RECURSIVE batch_loop(_, _, _)
batch_loop(products, i, acc) ==
    IF i > Len(products) THEN acc
    ELSE IF ~is_dict(products[i]) THEN Raised("TypeError or AttributeError")
    ELSE IF ~validate_product_input(products[i]).is_valid
    THEN batch_loop(products, i + 1,
                    batch_append(acc, error_entry(products[i]),
                                 <<"validate_product_input">>))
    ELSE batch_loop(products, i + 1,
                    batch_append(acc, success_entry(products[i]),
                                 <<"validate_product_input", "optimize">>))

\* len([r for r in results if 'error' not in r])
count_successful(results) ==
    Cardinality({i \in DOMAIN results : "error" \notin DOMAIN results[i]})

\* the two returns after the loop: the summary, or the except clause's 500
batch_response(products, outcome) ==
    IF IsError(outcome)
    THEN [status |-> 500, steps |-> << >>, body |-> [error |-> outcome.error]]
    ELSE [status |-> 200,
          steps |-> outcome.steps,
          body |-> [success |-> TRUE,
                    total_products |-> Len(products),
                    successful |-> count_successful(outcome.results),
                    results |-> outcome.results]]

batch_optimize(data) ==
    IF Get(data, "products", << >>) = << >>
    THEN [status |-> 400, steps |-> << >>,
          body |-> [error |-> "No products provided"]]
    ELSE batch_response(data.products,
                        batch_loop(data.products, 1,
                                   [results |-> << >>, steps |-> << >>]))

(***************************************************************************)
(* Requests the clients send                                               *)
(***************************************************************************)
MaxLen == 8

MaxWeightKg == 21

MaxFragility == 6

\* product lengths, half centimetres: 0.5 cm .. MaxLen/2 cm, and 18 cm
Lengths == (1..MaxLen) \cup {36}

Widths == {3, 28}

Heights == {1, 14}

\* grams: the band edges of the calculators, one gram around them, whole kilograms
Weights ==
    {1, 500, 750, 1125, 1500, 1501, 1749, 1750, 2000, 2001, 2250, 2499, 2500,
     2624, 2625, 3000, 3001, 3500, 3501, 3749, 3750, 4000, 4001, 5000, 5001,
     7500, 10000, 10001, 11250, 15000, 15001, 20000, 20001}
    \cup {1000 * k : k \in 1..MaxWeightKg}

Fragilities == 0..MaxFragility

Categories ==
    {"electronics", "food", "cosmetics", "apparel", "books", "toys", "other",
     "ELECTRONICS", "Food", "Other", "garden", "", None}

NoRequest == [op |-> "none"]

NoCall == [op |-> "none"]

\* outer boxes for predict and predict_drop_test: 5x5x5, 25x20x15, 50x40x30,
\* 22x17x10, 30x10x5 and 100x80x60 cm, and a box with a zero side
Boxes ==
    {[length |-> 10, width |-> 10, height |-> 10],
     [length |-> 50, width |-> 40, height |-> 30],
     [length |-> 100, width |-> 80, height |-> 60],
     [length |-> 44, width |-> 34, height |-> 20],
     [length |-> 60, width |-> 20, height |-> 10],
     [length |-> 200, width |-> 160, height |-> 120],
     [length |-> 50, width |-> 40, height |-> 0]}

\* the names select can return, the table's own 'Foam Insert Box', an unknown
MaterialNames ==
    {MaterialsInit[i].material.name : i \in DOMAIN MaterialsInit}
    \cup {"Foam Insert Box", "Bubble Wrap"}

\* light loads reach the upper bands of the volume-weight ratio
LightWeights == {0, 10, 20, 40, 80, 160}

DropHeights == {50, 100, 200}

\* material dicts for analyze: the catalog records, and dicts that lack the
\* thickness or name an unknown one
AnalyzeMaterials ==
    {MaterialsInit[i].material : i \in DOMAIN MaterialsInit}
    \cup {[name |-> "Custom"],
          [name |-> "Custom", thickness |-> "9mm", sustainability_score |-> 95]}

OriginalDims ==
    [length : {0, 4, 10, 36}, width : {4, 28}, height : {2, 14}]

OptimizedDims ==
    {[length |-> 10, width |-> 10, height |-> 10],
     [length |-> 14, width |-> 14, height |-> 12],
     [length |-> 44, width |-> 34, height |-> 20],
     [length |-> 48, width |-> 40, height |-> 26]}

OptimizeRequests ==
    [op : {"optimize"}, product_length : Lengths, product_width : Widths,
     product_height : Heights, weight : Weights, fragility : Fragilities]

SelectRequests ==
    [op : {"select"}, category : Categories, weight : Weights,
     fragility : Fragilities, recyclable_priority : BOOLEAN]

GetAllMaterialsRequests == [op : {"get_all_materials"}]

\* boxes of 0.6 to 2 m a side for heavy products: every band of the
\* volume-to-weight ratio at 15 to 20 kg
HeavyBoxes ==
    {[length |-> 120, width |-> 400, height |-> 400],
     [length |-> 240, width |-> 400, height |-> 400],
     [length |-> 368, width |-> 368, height |-> 368],
     [length |-> 410, width |-> 410, height |-> 410]}

PredictRequests ==
    [op : {"predict"}, dimensions : Boxes, material_name : MaterialNames,
     weight : Weights \cup LightWeights, fragility : Fragilities]
    \cup [op : {"predict"}, dimensions : HeavyBoxes,
          material_name : {"Honeycomb Cardboard", "Double-Wall Corrugated Cardboard"},
          weight : {15000, 15001, 17500, 20000}, fragility : Fragilities]

DropTestRequests ==
    [op : {"predict_drop_test"}, dimensions : {[length |-> 50, width |-> 40, height |-> 30]},
     material_name : MaterialNames, weight : Weights \cup {0},
     height_cm : DropHeights]

AnalyzeRequests ==
    [op : {"analyze"}, original_dims : OriginalDims, optimized_dims : OptimizedDims,
     material : AnalyzeMaterials, product_weight : {500}]

\* bodies for heavy products of 1.8 m a side, whose boxes lie in the second
\* band of the volume-to-weight ratio
HeavyPipelineData ==
    [length : {360}, width : {360}, height : {360}, weight : {15001, 17500, 20000},
     category : {"electronics", "other"}, fragility : {1, 2}, recyclable : BOOLEAN]

\* the JSON bodies posted to /api/optimize, with and without the optional
\* fragility
PipelineData ==
    [length : {0, 5, 36}, width : Widths, height : Heights, weight : Weights,
     category : {"electronics", "Food", "other"}, fragility : Fragilities,
     recyclable : BOOLEAN]
    \cup [length : {5, 36}, width : Widths, height : Heights, weight : Weights,
          category : {"electronics", "Food", "other"}, stackable : {TRUE}]
    \cup HeavyPipelineData

PipelineRequests == [op : {"optimize_packaging"}, data : PipelineData]

MaxBatch == 3

\* the items of a batch: an 18x14x7 cm product, one too heavy for every
\* material and without the optional fragility, one with a zero length, one
\* without its weight, and a JSON null
BatchProducts ==
    {[product_name |-> "A", length |-> 36, width |-> 28, height |-> 14,
      weight |-> 500, category |-> "electronics", fragility |-> 4],
     [product_name |-> "B", length |-> 5, width |-> 3, height |-> 1,
      weight |-> 21000, category |-> "other"],
     [product_name |-> "C", length |-> 0, width |-> 28, height |-> 14,
      weight |-> 500, category |-> "food", fragility |-> 3],
     [length |-> 36, width |-> 28, height |-> 14, category |-> "food"],
     [json |-> "null"]}

Batches == UNION {[1..n -> BatchProducts] : n \in 0..MaxBatch}

BatchRequests ==
    {[op |-> "batch_optimize", data |-> [products |-> b]] : b \in Batches}
    \cup {[op |-> "batch_optimize", data |-> [items |-> << >>]]}

AllRequests ==
    OptimizeRequests \cup SelectRequests \cup GetAllMaterialsRequests
    \cup PredictRequests \cup DropTestRequests \cup AnalyzeRequests
    \cup PipelineRequests \cup BatchRequests

\* the planner calls of a run that compares one call with an earlier one:
\* weights at the edges of the weight bands, every fragility level and a
\* level missing from the table
PlannerRequests ==
    [op : {"optimize"}, product_length : {6, 7}, product_width : {28},
     product_height : {1},
     weight : {2000, 2001, 5000, 5001, 10000, 10001}, fragility : 0..5]

\* the calls a long-running server receives in any order and number
ServerRequests ==
    [op : {"select"}, category : {"electronics", None},
     weight : {500, 18000, 21000}, fragility : {3, 5},
     recyclable_priority : {TRUE}]
    \cup [op : {"optimize"}, product_length : {36}, product_width : {28},
          product_height : {14}, weight : {500}, fragility : {3, 5}]
    \cup GetAllMaterialsRequests
    \cup [op : {"predict"}, dimensions : {[length |-> 50, width |-> 40, height |-> 30]},
          material_name : {"Corrugated Cardboard (Single Wall)", "Bubble Wrap"},
          weight : {500}, fragility : {3}]
    \cup [op : {"predict_drop_test"},
          dimensions : {[length |-> 50, width |-> 40, height |-> 30]},
          material_name : {"Corrugated Cardboard (Single Wall)", "Bubble Wrap"},
          weight : {500}, height_cm : {100}]
    \cup [op : {"analyze"}, original_dims : {[length |-> 36, width |-> 28, height |-> 14]},
          optimized_dims : {[length |-> 44, width |-> 34, height |-> 20]},
          material : {MaterialsInit[1].material, [name |-> "Custom"]},
          product_weight : {500}]

(***************************************************************************)
(* The handlers: each serves the pending request with the shared instances *)
(***************************************************************************)
\* the observer keeps its record or replaces it by the call now superseded
Observe == earlier' = earlier \/ earlier' = call

Optimize ==
    /\ request.op = "optimize"
    /\ call' = [op |-> "optimize",
                args |-> request,
                result |-> optimize(request.product_length, request.product_width,
                                    request.product_height, request.weight,
                                    request.fragility)]
    /\ request' = NoRequest
    /\ Observe
    /\ UNCHANGED tables

Select ==
    /\ request.op = "select"
    /\ LET frame == select(materials, category_priorities, request.category,
                           request.weight, request.fragility,
                           request.recyclable_priority)
       IN  /\ call' = [op |-> "select",
                       args |-> request,
                       material_scores |-> frame.material_scores,
                       best_material_key |-> frame.best_material_key,
                       result |-> frame.result]
           /\ materials' = IF IsError(frame.result) THEN materials
                           ELSE materials_after_select(materials,
                                                       frame.best_material_key,
                                                       frame.result)
    /\ request' = NoRequest
    /\ Observe
    /\ UNCHANGED <<category_priorities, material_properties, thickness_factors>>

GetAllMaterials ==
    /\ request.op = "get_all_materials"
    /\ call' = [op |-> "get_all_materials",
                args |-> request,
                result |-> get_all_materials(materials)]
    /\ request' = NoRequest
    /\ Observe
    /\ UNCHANGED tables

Predict ==
    /\ request.op = "predict"
    /\ call' = [op |-> "predict",
                args |-> request,
                result |-> predict(material_properties, request.dimensions,
                                   request.material_name, request.weight,
                                   request.fragility)]
    /\ request' = NoRequest
    /\ Observe
    /\ UNCHANGED tables

PredictDropTest ==
    /\ request.op = "predict_drop_test"
    /\ call' = [op |-> "predict_drop_test",
                args |-> request,
                result |-> predict_drop_test(material_properties, request.dimensions,
                                             request.material_name, request.weight,
                                             request.height_cm)]
    /\ request' = NoRequest
    /\ Observe
    /\ UNCHANGED tables

Analyze ==
    /\ request.op = "analyze"
    /\ call' = [op |-> "analyze",
                args |-> request,
                result |-> analyze(thickness_factors, request.original_dims,
                                   request.optimized_dims, request.material,
                                   request.product_weight)]
    /\ request' = NoRequest
    /\ Observe
    /\ UNCHANGED tables

\* the catalog key of the material a response carries
key_of(mats, material) ==
    CHOOSE k \in {mats[i].key : i \in DOMAIN mats} :
        MaterialByKey(mats, k).name = material.name

\* the instance state left behind by a request that was answered by response
materials_after_response(mats, response) ==
    IF response.status = 200
    THEN materials_after_select(
             mats, key_of(mats, response.body.optimized_design.material),
             response.body.optimized_design.material)
    ELSE mats

Answer(response) ==
    /\ call' = [op |-> "optimize_packaging", args |-> request, result |-> response]
    /\ materials' = materials_after_response(materials, response)

OptimizePackaging ==
    /\ request.op = "optimize_packaging"
    /\ Answer(optimize_packaging(materials, category_priorities,
                                 material_properties, thickness_factors,
                                 request.data))
    /\ request' = NoRequest
    /\ Observe
    /\ UNCHANGED <<category_priorities, material_properties, thickness_factors>>

BatchOptimize ==
    /\ request.op = "batch_optimize"
    /\ call' = [op |-> "batch_optimize",
                args |-> request,
                result |-> batch_optimize(request.data)]
    /\ request' = NoRequest
    /\ Observe
    /\ UNCHANGED tables

\* a client sends the next request once the last one was answered
Receive(requests) ==
    /\ request = NoRequest
    /\ request' \in requests
    /\ UNCHANGED <<tables, call, earlier>>

TablesInit ==
    /\ materials = MaterialsInit
    /\ category_priorities = CategoryPrioritiesInit
    /\ material_properties = MaterialPropertiesInit
    /\ thickness_factors = ThicknessFactorsInit

\* one request served by a freshly started process
Init ==
    /\ TablesInit
    /\ request \in AllRequests
    /\ call = NoCall
    /\ earlier = NoCall

Next ==
    \/ Optimize
    \/ Select
    \/ GetAllMaterials
    \/ Predict
    \/ PredictDropTest
    \/ Analyze
    \/ OptimizePackaging
    \/ BatchOptimize

Spec == Init /\ [][Next]_vars

\* a process that stays up: nothing is pending at the start
IdleInit ==
    /\ TablesInit
    /\ request = NoRequest
    /\ call = NoCall
    /\ earlier = NoCall

NextPlanner ==
    \/ Receive(PlannerRequests)
    \/ Optimize

\* any number of planner calls, one after the other
SpecPlanner == IdleInit /\ [][NextPlanner]_vars

NextServer ==
    \/ Receive(ServerRequests)
    \/ Optimize
    \/ Select
    \/ GetAllMaterials
    \/ Predict
    \/ PredictDropTest
    \/ Analyze

\* any sequence of calls against the shared instances
SpecServer == IdleInit /\ [][NextServer]_vars

(***************************************************************************)
(* The choice among scored materials, on score tables of every shape       *)
(***************************************************************************)
\* how many catalog materials, from the first on, a score table may hold
MaxRanked == 4

\* the totals a table entry may carry, in tenths of a point
RankedScores == {700, 750, 800}

\* a material_scores dict as the scoring loop builds it: catalog order, the
\* skipped materials absent
ScoreTableOf(scored, totals) ==
    LET kept == SelectSeq([i \in 1..MaxRanked |-> i], LAMBDA i : i \in scored)
    IN  [r \in DOMAIN kept |->
           [key |-> MaterialsInit[kept[r]].key,
            score |-> totals[kept[r]],
            reasons |-> << >>,
            material |-> MaterialsInit[kept[r]].material]]

ScoreTables ==
    {ScoreTableOf(scored, totals) :
        scored \in SUBSET (1..MaxRanked), totals \in [1..MaxRanked -> RankedScores]}

RankingRequests == [op : {"pick_best"}, material_scores : ScoreTables]

\* lines 290-300 of select applied to a score table
PickBest ==
    /\ request.op = "pick_best"
    /\ LET frame == pick_best(request.material_scores)
       IN  call' = [op |-> "pick_best",
                    args |-> request,
                    material_scores |-> frame.material_scores,
                    best_material_key |-> frame.best_material_key,
                    result |-> frame.result]
    /\ request' = NoRequest
    /\ Observe
    /\ UNCHANGED tables

RankingInit ==
    /\ TablesInit
    /\ request \in RankingRequests
    /\ call = NoCall
    /\ earlier = NoCall

NextRanking == PickBest

\* the winner and the alternatives chosen from one score table
SpecRanking == RankingInit /\ [][NextRanking]_vars

(***************************************************************************)
(* Properties of MaterialSelector.select                                   *)
(***************************************************************************)
SomeMaterialCarries(weight) ==
    \E i \in DOMAIN MaterialsInit : MaterialsInit[i].material.weight_limit >= weight

\* C1: whenever some catalog material has weight_limit >= weight (fragility
\* in 1..5, any category and recyclable flag), select returns a material
\* whose weight_limit is >= weight.
C1_WinnerCarriesWeight ==
    (/\ call.op = "select"
     /\ call.args.fragility \in 1..5
     /\ SomeMaterialCarries(call.args.weight))
    => (/\ ~IsError(call.result)
        /\ call.result.weight_limit >= call.args.weight)

\* a select that left out at least four overloaded materials and returned
\* one of the others
C1_Witness ==
    /\ call.op = "select"
    /\ call.args.fragility \in 1..5
    /\ call.args.weight > 4000
    /\ Len(call.material_scores) <= 3
    /\ ~IsError(call.result)
    /\ call.result.weight_limit >= call.args.weight

\* C2: when the weight exceeds every weight_limit (weight > 20 kg), select
\* still returns a best-effort material and raises no error.
C2_BestEffortAboveEveryLimit ==
    (/\ call.op = "select"
     /\ ~SomeMaterialCarries(call.args.weight))
    => ~IsError(call.result)

(***************************************************************************)
(* Properties of DimensionOptimizer.optimize                               *)
(***************************************************************************)
ValidPlannerCall ==
    /\ call.op = "optimize"
    /\ call.args.product_length > 0
    /\ call.args.product_width > 0
    /\ call.args.product_height > 0
    /\ call.args.weight > 0
    /\ call.args.fragility \in 1..5

\* C3: for positive dimensions and weight and fragility in 1..5, each outer
\* dimension is >= 5 cm and >= its input dimension plus the padding_applied
\* reported for it.
C3_OuterDimensionBounds ==
    ValidPlannerCall =>
        /\ call.result.length >= 10
        /\ call.result.width >= 10
        /\ call.result.height >= 10
        /\ call.result.length >= call.args.product_length
                                 + call.result.padding_applied.length
        /\ call.result.width >= call.args.product_width
                                + call.result.padding_applied.width
        /\ call.result.height >= call.args.product_height
                                 + call.result.padding_applied.height

\* a box whose length is the 5 cm minimum although length plus padding is
\* below it, and whose width was rounded up above width plus padding
C3_Witness ==
    /\ ValidPlannerCall
    /\ call.result.length = 10
    /\ call.args.product_length + call.result.padding_applied.length < 9
    /\ call.result.width > 10
    /\ call.result.width > call.args.product_width
                           + call.result.padding_applied.width

\* the planner result a call carries: optimize's own, or the 'dimensions' of
\* a 200 response of /api/optimize
HasPlannerResult ==
    \/ call.op = "optimize"
    \/ call.op = "optimize_packaging" /\ call.result.status = 200

PlannerResult ==
    IF call.op = "optimize" THEN call.result
    ELSE call.result.body.optimized_design.dimensions

PlannerInput ==
    IF call.op = "optimize"
    THEN [length |-> call.args.product_length,
          width |-> call.args.product_width,
          height |-> call.args.product_height]
    ELSE [length |-> call.args.data.length,
          width |-> call.args.data.width,
          height |-> call.args.data.height]

\* C4: in every result, volume is length * width * height of the returned
\* outer dimensions and space_utilization is 100 * (input volume) / volume;
\* the 'volume' of the /api/optimize response equals its dimensions' volume.
\* Volumes are in eighths of a cubic centimetre on both sides of the ratio.
C4_VolumeAndUtilization ==
    /\ HasPlannerResult =>
         /\ PlannerResult.volume = PlannerResult.length * PlannerResult.width
                                   * PlannerResult.height
         /\ PlannerResult.space_utilization =
                RMul(RInt(100),
                     Rat(PlannerInput.length * PlannerInput.width
                             * PlannerInput.height,
                         PlannerResult.volume))
    /\ (call.op = "optimize_packaging" /\ call.result.status = 200) =>
         call.result.body.optimized_design.volume =
             call.result.body.optimized_design.dimensions.volume

\* a 200 response for a box with three different sides, larger than the
\* product, that carries the box's volume twice
C4_Witness ==
    /\ call.op = "optimize_packaging"
    /\ call.result.status = 200
    /\ PlannerResult.length > PlannerResult.width
    /\ PlannerResult.width > PlannerResult.height
    /\ PlannerResult.volume = PlannerResult.length * PlannerResult.width
                              * PlannerResult.height
    /\ call.result.body.optimized_design.volume = PlannerResult.volume
    /\ PlannerResult.space_utilization.n > 0
    /\ RLt(PlannerResult.space_utilization, RInt(100))

SamePlannerProduct(a, b) ==
    /\ a.product_length = b.product_length
    /\ a.product_width = b.product_width
    /\ a.product_height = b.product_height

NoLargerBox(a, b) ==
    /\ a.padding_applied.length <= b.padding_applied.length
    /\ a.padding_applied.width <= b.padding_applied.width
    /\ a.padding_applied.height <= b.padding_applied.height
    /\ a.length <= b.length
    /\ a.width <= b.width
    /\ a.height <= b.height

\* C5: for the same product, the padding is non-decreasing in fragility
\* over 1..5 with the weight fixed, and non-decreasing in weight with the
\* fragility fixed; so is each outer dimension.
C5_PaddingMonotone ==
    (/\ earlier.op = "optimize"
     /\ call.op = "optimize"
     /\ SamePlannerProduct(earlier.args, call.args)
     /\ \/ /\ earlier.args.weight = call.args.weight
           /\ earlier.args.fragility \in 1..5
           /\ call.args.fragility \in 1..5
           /\ earlier.args.fragility <= call.args.fragility
        \/ /\ earlier.args.fragility = call.args.fragility
           /\ earlier.args.weight <= call.args.weight)
    => NoLargerBox(earlier.result, call.result)

\* two calls for one product and fragility whose weights lie in neighbouring
\* bands, the heavier one with the strictly larger padding
C5_Witness ==
    /\ earlier.op = "optimize"
    /\ call.op = "optimize"
    /\ SamePlannerProduct(earlier.args, call.args)
    /\ earlier.args.fragility = call.args.fragility
    /\ earlier.args.weight = 5000
    /\ call.args.weight = 5001
    /\ earlier.result.padding_applied.length < call.result.padding_applied.length
    /\ earlier.result.length <= call.result.length

(***************************************************************************)
(* Properties of StrengthPredictor.predict                                 *)
(***************************************************************************)
\* C6: for all inputs, strength is in [60, 98], durability in [60, 98] and
\* compression_resistance in [65, 98].
C6_ScoreRanges ==
    call.op = "predict" =>
        /\ call.result.strength \in 60..98
        /\ call.result.durability \in 60..98
        /\ call.result.compression_resistance \in 65..98

\* a prediction whose unclamped strength and durability lie below 60: kraft
\* paper (65 and 60) under the lowest load factor
C6_Witness ==
    /\ call.op = "predict"
    /\ call.args.material_name = "100% Recycled Kraft Paper"
    /\ call.result.analysis.load_distribution = "Needs Improvement"
    /\ call.result.strength = 60
    /\ call.result.durability = 60

FirstReinforcementReason(strength, weight, fragility) ==
    IF strength < 70 THEN "Low overall strength score"
    ELSE IF weight > 5000 /\ strength < 80
    THEN "Heavy product requires stronger material"
    ELSE IF fragility >= 4 /\ strength < 85
    THEN "Fragile product requires better protection"
    ELSE None

\* C7: needs_reinforcement is true exactly when the returned strength is
\* below 70, or weight > 5 kg and strength below 80, or fragility >= 4 and
\* strength below 85; reinforcement_reason is the reason of the first of the
\* three that holds, in that order, and null exactly when the flag is false.
C7_ReinforcementRule ==
    call.op = "predict" =>
        LET strength == call.result.strength
            weight == call.args.weight
            fragility == call.args.fragility
        IN  /\ call.result.needs_reinforcement =
                   (\/ strength < 70
                    \/ weight > 5000 /\ strength < 80
                    \/ fragility >= 4 /\ strength < 85)
            /\ call.result.reinforcement_reason =
                   FirstReinforcementReason(strength, weight, fragility)
            /\ (call.result.reinforcement_reason = None)
                   = ~call.result.needs_reinforcement

\* a heavy and fragile product whose strength is in 70..79: the second and
\* the third condition hold and the reason is the second's
C7_Witness ==
    /\ call.op = "predict"
    /\ call.args.weight > 5000
    /\ call.args.fragility >= 4
    /\ call.result.strength \in 70..79
    /\ call.result.needs_reinforcement
    /\ call.result.reinforcement_reason = "Heavy product requires stronger material"

(***************************************************************************)
(* Properties of SustainabilityAnalyzer.analyze                            *)
(***************************************************************************)
PositiveDims(dims) ==
    dims.length > 0 /\ dims.width > 0 /\ dims.height > 0

InRange(x, low, high) == RLe(RInt(low), x) /\ RLe(x, RInt(high))

\* C8: for positive original and optimized dimensions, volume_reduction is
\* in [0, 95], transport_efficiency_gain in [0, 100] and sustainability_score
\* in [0, 100].
C8_AnalyzeRanges ==
    (/\ call.op = "analyze"
     /\ PositiveDims(call.args.original_dims)
     /\ PositiveDims(call.args.optimized_dims))
    => (/\ ~IsError(call.result)
        /\ InRange(call.result.volume_reduction, 0, 95)
        /\ InRange(call.result.transport_efficiency_gain, 0, 100)
        /\ InRange(call.result.sustainability_score, 0, 100))

\* an optimized box larger than the traditional one: the volume reduction
\* and the transport gain before clamping are negative
C8_Witness ==
    /\ call.op = "analyze"
    /\ PositiveDims(call.args.original_dims)
    /\ PositiveDims(call.args.optimized_dims)
    /\ ~IsError(call.result)
    /\ RLt(call.result.details.traditional_packaging.volume_cm3,
           call.result.details.optimized_packaging.volume_cm3)
    /\ call.result.volume_reduction = RInt(0)
    /\ call.result.transport_efficiency_gain = RInt(0)

C11_ScoreOutOfHundred ==
    (call.op = "select" /\ ~IsError(call.result))
    => (/\ call.result.selection_score \in 0..1000
        /\ \A i \in DOMAIN call.result.alternatives :
               call.result.alternatives[i].score \in 0..1000)

(***************************************************************************)
(* Lookup misses                                                           *)
(***************************************************************************)
\* the material dict with its 'thickness' set to class t
WithThickness(material, t) ==
    [k \in DOMAIN material \cup {"thickness"} |->
       IF k = "thickness" THEN t ELSE material[k]]

UnknownThickness(material) ==
    \/ "thickness" \notin DOMAIN material
    \/ material.thickness \notin DOMAIN thickness_factors

\* C12: predict with a material name absent from the strength table returns
\* exactly what it returns for 'Recycled Cardboard' with the same other
\* arguments, and analyze with a missing or unknown thickness class returns
\* exactly what it returns for thickness '3mm' with the same other arguments.
C12_LookupMissSubstituted ==
    /\ (call.op = "predict"
        /\ call.args.material_name \notin DOMAIN material_properties)
       => call.result = predict(material_properties, call.args.dimensions,
                                "Recycled Cardboard", call.args.weight,
                                call.args.fragility)
    /\ (call.op = "analyze" /\ UnknownThickness(call.args.material))
       => call.result = analyze(thickness_factors, call.args.original_dims,
                                call.args.optimized_dims,
                                WithThickness(call.args.material, "3mm"),
                                call.args.product_weight)

\* a prediction for a name the table lacks whose scores are those of the
\* 'Recycled Cardboard' entry and differ from those of every other entry
C12_Witness ==
    /\ call.op = "predict"
    /\ call.args.material_name \notin DOMAIN material_properties
    /\ ~IsError(call.result)
    /\ call.result.analysis.material_rating
           = rate_material(material_properties["Recycled Cardboard"].base_strength)
    /\ \A name \in DOMAIN material_properties \ {"Recycled Cardboard"} :
           call.result # predict(material_properties, call.args.dimensions, name,
                                 call.args.weight, call.args.fragility)

\* C13: predict_drop_test with a material name absent from the strength
\* table raises no error and computes its material capacity from the
\* 'Recycled Cardboard' entry (tensile strength 150, capacity 75).
C13_DropTestSubstitutes ==
    (call.op = "predict_drop_test"
     /\ call.args.material_name \notin DOMAIN material_properties)
    => (/\ ~IsError(call.result)
        /\ call.result.material_capacity = RInt(75))

(***************************************************************************)
(* Properties of batch_optimize                                            *)
(***************************************************************************)
ValidItem(product) ==
    is_dict(product) /\ validate_product_input(product).is_valid

NonEmptyBatchCall ==
    /\ call.op = "batch_optimize"
    /\ "products" \in DOMAIN call.args.data
    /\ call.args.data.products # << >>

\* C14: for every non-empty batch, batch_optimize returns a results list
\* with exactly one entry per input product, in input order; a product that
\* fails yields an error entry for that product only, every later product is
\* still processed, and 'successful' is the number of entries without error.
C14_OneEntryPerProduct ==
    NonEmptyBatchCall =>
        LET products == call.args.data.products
        IN  /\ call.result.status = 200
            /\ Len(call.result.body.results) = Len(products)
            /\ \A i \in DOMAIN products :
                   LET entry == call.result.body.results[i]
                   IN  IF ValidItem(products[i])
                       THEN /\ "error" \notin DOMAIN entry
                            /\ entry.product_name
                                   = Get(products[i], "product_name", None)
                       ELSE "error" \in DOMAIN entry
            /\ call.result.body.successful
                   = Cardinality({i \in DOMAIN products : ValidItem(products[i])})

\* C15: for each valid item of a batch, the per-item result is that of the
\* four-calculator pipeline of the single-item entry point (dimensions,
\* material, strength, sustainability), so the item gets the optimized
\* dimensions it gets alone.
C15_BatchAppliesPipeline ==
    (NonEmptyBatchCall /\ call.result.status = 200) =>
        \A i \in DOMAIN call.args.data.products :
            ValidItem(call.args.data.products[i]) =>
                /\ {"optimize", "select", "predict", "analyze"}
                       \subseteq SeqToSet(call.result.steps[i])
                /\ LET single == optimize_packaging(
                                     materials, category_priorities,
                                     material_properties, thickness_factors,
                                     call.args.data.products[i])
                   IN  single.status = 200 =>
                           call.result.body.results[i].optimized_dimensions
                               = single.body.optimized_design.dimensions

(***************************************************************************)
(* Scenarios and listings of MaterialSelector                              *)
(***************************************************************************)
FragileElectronicsCall ==
    /\ call.op = "select"
    /\ call.args.category = "electronics"
    /\ call.args.fragility = 5
    /\ call.args.weight > 0
    /\ call.args.weight <= 5000

\* C16: for category 'electronics', fragility 5 and a weight in (0, 5] kg,
\* with either recyclable priority, select returns foam_insert_cardboard
\* ('Recycled Cardboard with Biodegradable Foam', fragility_max >= 5,
\* strength High), ahead of every other scored material.
C16_FragileElectronicsGetFoam ==
    FragileElectronicsCall =>
        /\ ~IsError(call.result)
        /\ call.best_material_key = "foam_insert_cardboard"
        /\ call.result.name = "Recycled Cardboard with Biodegradable Foam"
        /\ call.result.fragility_max >= 5
        /\ call.result.strength_rating = "High"
        /\ \A i \in DOMAIN call.material_scores :
               call.material_scores[i].key # "foam_insert_cardboard"
               => call.material_scores[i].score < call.result.selection_score

\* the foam box won at its weight limit, where it gets the fewest weight
\* points, against materials that carry the weight with ease
C16_Witness ==
    /\ FragileElectronicsCall
    /\ call.args.weight = 5000
    /\ ~call.args.recyclable_priority
    /\ call.best_material_key = "foam_insert_cardboard"
    /\ Len(call.result.alternatives) = 2
    /\ call.result.alternatives[1].score < call.result.selection_score

\* the keys of the catalog in the order __init__ declares them
CatalogKeys ==
    <<"recycled_cardboard", "double_wall_corrugated", "kraft_paper",
      "foam_insert_cardboard", "food_grade_cardboard", "molded_pulp",
      "honeycomb_cardboard">>

\* C17: get_all_materials returns exactly 7 records, one per catalog
\* material, in catalog declaration order, and the same list in the same
\* order on every call, whatever select calls came before.
C17_ListingStable ==
    call.op = "get_all_materials" =>
        /\ Len(call.result) = 7
        /\ \A i \in 1..7 :
               /\ call.result[i].id = CatalogKeys[i]
               /\ call.result[i].name = MaterialsInit[i].material.name
        /\ earlier.op = "get_all_materials" => earlier.result = call.result

\* a listing made after a select had returned a scored material
C17_Witness ==
    /\ earlier.op = "select"
    /\ ~IsError(earlier.result)
    /\ "selection_score" \in DOMAIN earlier.result
    /\ call.op = "get_all_materials"
    /\ Len(call.result) = 7
    /\ call.result[4].id = earlier.best_material_key

\* what select returns with the shared tables as they are
SelectNow(category, args) ==
    select(materials, category_priorities, category, args.weight,
           args.fragility, args.recyclable_priority).result

\* the same winner, selection_score and alternatives, or the same error
SameChoice(a, b) ==
    IF IsError(a) \/ IsError(b) THEN a = b
    ELSE /\ a.name = b.name
         /\ a.selection_score = b.selection_score
         /\ a.alternatives = b.alternatives

DefaultedCategory(category) ==
    \/ category = None
    \/ category = ""
    \/ Lower(category) \notin DOMAIN category_priorities

\* C18: select lower-cases the category; a category that is unknown, empty
\* or None gets the winner, selection_score and alternatives of category
\* 'other' with the same other arguments, and a category that differs from
\* its lower-case form only in letter case gets that form's whole result.
C18_CategoryNormalised ==
    call.op = "select" =>
        /\ DefaultedCategory(call.args.category)
           => SameChoice(call.result, SelectNow("other", call.args))
        /\ (call.args.category \notin {None, ""}
            /\ Lower(call.args.category) # call.args.category)
           => call.result = SelectNow(Lower(call.args.category), call.args)

\* an unknown category for which the one preferred material of the 'other'
\* profile won with the 15 points of a preferred material
C18_Witness ==
    /\ call.op = "select"
    /\ call.args.category = "garden"
    /\ ~IsError(call.result)
    /\ call.best_material_key = "recycled_cardboard"
    /\ \E i \in DOMAIN call.result.selection_reasons :
           call.result.selection_reasons[i] = <<"Optimized for", "garden", "category">>
    /\ SameChoice(call.result, SelectNow("other", call.args))

(***************************************************************************)
(* Non-positive dimensions in SustainabilityAnalyzer.analyze               *)
(***************************************************************************)
\* C19: analyze completes without a division-by-zero error when an original
\* dimension is 0, so that the traditional volume is 0, and the volume
\* reduction, whose traditional quantity is then 0, is reported as 0.
C19_ZeroVolumeNoCrash ==
    (/\ call.op = "analyze"
     /\ volume_of(call.args.original_dims) = RInt(0)
     /\ PositiveDims(call.args.optimized_dims))
    => (/\ ~IsError(call.result)
        /\ call.result.volume_reduction = RInt(0))

(***************************************************************************)
(* The box arithmetic of DimensionOptimizer.optimize, in half centimetres  *)
(***************************************************************************)
\* 1.5, 2.0, 2.5, 3.0, 3.5 cm for fragility 1..5 and 2.5 cm otherwise
StatedBasePadding(fragility) ==
    IF fragility \in 1..5 THEN fragility + 2 ELSE 5

\* 2.0 cm above 10 kg, 1.5 above 5, 1.0 above 2, else 0.5
StatedWeightFactor(weight) ==
    IF weight > 10000 THEN 4
    ELSE IF weight > 5000 THEN 3
    ELSE IF weight > 2000 THEN 2
    ELSE 1

\* the least whole number of centimetres that is >= x half centimetres
WholeCmAbove(x) == CHOOSE e \in x..(x + 1) : e % 2 = 0

StatedOuter(product, fragility, weight) ==
    Max(WholeCmAbove(product + StatedBasePadding(fragility)
                     + StatedWeightFactor(weight)),
        10)

\* C20: optimize returns for each side max(ceil(productDimension +
\* basePadding + weightFactor), 5) with basePadding 1.5/2.0/2.5/3.0/3.5 for
\* fragility 1..5 and 2.5 for any other value, so that an out-of-range
\* fragility gives the box of fragility 3, and weightFactor 2.0 above 10 kg,
\* 1.5 above 5, 1.0 above 2, else 0.5, a weight of exactly 10, 5 or 2 falling
\* in the lower band; 18x14x7, 0.5 kg, fragility 4 gives 22x18x11.
C20_BoxFormula ==
    call.op = "optimize" =>
        /\ call.result.length = StatedOuter(call.args.product_length,
                                            call.args.fragility, call.args.weight)
        /\ call.result.width = StatedOuter(call.args.product_width,
                                           call.args.fragility, call.args.weight)
        /\ call.result.height = StatedOuter(call.args.product_height,
                                            call.args.fragility, call.args.weight)
        /\ call.args.fragility \notin 1..5
           => call.result = optimize(call.args.product_length,
                                     call.args.product_width,
                                     call.args.product_height,
                                     call.args.weight, 3)
        /\ (/\ call.args.product_length = 36
            /\ call.args.product_width = 28
            /\ call.args.product_height = 14
            /\ call.args.weight = 500
            /\ call.args.fragility = 4)
           => (/\ call.result.length = 44
               /\ call.result.width = 36
               /\ call.result.height = 22)

\* the 18x14x7 cm product of 0.5 kg and fragility 4 in its 22x18x11 cm box
C20_Witness ==
    /\ call.op = "optimize"
    /\ call.args.product_length = 36
    /\ call.args.product_width = 28
    /\ call.args.product_height = 14
    /\ call.args.weight = 500
    /\ call.args.fragility = 4
    /\ call.result.length = 44
    /\ call.result.width = 36
    /\ call.result.height = 22
    /\ call.result.padding_applied.length = 7

(***************************************************************************)
(* The conversion of the raw scores of StrengthPredictor.predict           *)
(***************************************************************************)
\* x / unit rounded to the nearest integer, x >= 0
RoundedTo(x, unit) == (2 * x + unit) \div (2 * unit)

Clamped(x, low, high) == Min(high, Max(low, x))

\* C21: predict computes strength as clamp(round(baseStrength *
\* strengthFactor * fragilityFactor * geometryFactor * 100), 60, 98),
\* durability as clamp(round(durability * strengthFactor * 100), 60, 98) and
\* compression as clamp(round(compression * geometryFactor * 100), 65, 98):
\* each raw percentage is rounded to the nearest integer before clamping.
C21_ScoresRounded ==
    call.op = "predict" =>
        LET entry == props_or_default(material_properties, call.args.material_name)
            dims == call.args.dimensions
            sf == strength_factor(vw_ratio(dims.length * dims.width * dims.height,
                                           call.args.weight))
            ff == fragility_factor(call.args.fragility, entry.base_strength)
            gf == geometry_factor(aspect_ratio(dims))
        IN  /\ call.result.strength
                   = Clamped(RoundedTo(entry.base_strength * sf * ff * gf, 1000000),
                             60, 98)
            /\ call.result.durability
                   = Clamped(RoundedTo(entry.durability * sf, 100), 60, 98)
            /\ call.result.compression_resistance
                   = Clamped(RoundedTo(entry.compression * gf, 100), 65, 98)

(***************************************************************************)
(* The winner and the alternatives of MaterialSelector.select              *)
(***************************************************************************)
SelectAnswered == call.op \in {"select", "pick_best"} /\ ~IsError(call.result)

\* the place of a catalog key, and of a display name, in declaration order
KeyPosition(key) == CHOOSE i \in DOMAIN materials : materials[i].key = key

NamePosition(name) ==
    CHOOSE i \in DOMAIN materials : materials[i].material.name = name

\* the scored entries whose total no other scored entry exceeds
TopScored(scores) ==
    {i \in DOMAIN scores : \A j \in DOMAIN scores : scores[j].score <= scores[i].score}

\* C22: the winner of select has the maximum total score among the scored
\* materials; when several share the maximum, the one declared first in the
\* catalog wins, and the same declaration-order rule orders alternatives
\* whose scores are tied.
C22_FirstDeclaredMaximumWins ==
    SelectAnswered =>
        LET scores == call.material_scores
            alternatives == call.result.alternatives
            winner == CHOOSE i \in TopScored(scores) :
                          \A j \in TopScored(scores) :
                              KeyPosition(scores[i].key) <= KeyPosition(scores[j].key)
        IN  /\ call.best_material_key = scores[winner].key
            /\ call.result.name = scores[winner].material.name
            /\ call.result.selection_score = scores[winner].score
            /\ \A a, b \in DOMAIN alternatives :
                   (a < b /\ alternatives[a].score = alternatives[b].score)
                       => NamePosition(alternatives[a].name)
                              < NamePosition(alternatives[b].name)

\* a call where two materials share the maximum and the alternatives are tied
C22_Witness ==
    /\ SelectAnswered
    /\ Cardinality(TopScored(call.material_scores)) >= 2
    /\ Len(call.result.alternatives) = 2
    /\ call.result.alternatives[1].score = call.result.alternatives[2].score

\* the catalog materials that may carry the weight
WeightEligible(weight) ==
    {i \in DOMAIN materials : weight <= materials[i].material.weight_limit}

\* C23: the alternatives list holds the next two highest-scoring non-winning
\* materials in score-descending order: it never contains the winner and
\* never a material whose weight_limit is below the weight, its scores are
\* non-increasing and each at most the winner's selection_score, and its
\* length equals min(2, number of weight-eligible materials - 1).
C23_AlternativesAreRunnersUp ==
    (call.op = "select" /\ ~IsError(call.result)) =>
        LET alternatives == call.result.alternatives
            weight == call.args.weight
            losers == {i \in DOMAIN call.material_scores :
                           call.material_scores[i].key # call.best_material_key}
            listed == {i \in losers : \E a \in DOMAIN alternatives :
                           alternatives[a].name = call.material_scores[i].material.name}
        IN  /\ \A a \in DOMAIN alternatives :
                   /\ alternatives[a].name # call.result.name
                   /\ NamePosition(alternatives[a].name) \in WeightEligible(weight)
                   /\ alternatives[a].score <= call.result.selection_score
                   /\ \E i \in losers :
                          /\ alternatives[a].name = call.material_scores[i].material.name
                          /\ alternatives[a].score = call.material_scores[i].score
            /\ \A a \in DOMAIN alternatives :
                   a > 1 => alternatives[a].score <= alternatives[a - 1].score
            /\ \A i \in listed : \A j \in losers \ listed :
                   call.material_scores[j].score <= call.material_scores[i].score
            /\ Len(alternatives) = Min(2, Cardinality(WeightEligible(weight)) - 1)

\* a select whose weight rules out some materials and leaves at least three
C23_Witness ==
    /\ call.op = "select"
    /\ ~IsError(call.result)
    /\ Cardinality(WeightEligible(call.args.weight)) \in 3..(Len(materials) - 1)
    /\ Len(call.result.alternatives) = 2
    /\ call.result.alternatives[2].score < call.result.alternatives[1].score

(***************************************************************************)
(* Properties of StrengthPredictor.predict_drop_test                       *)
(***************************************************************************)
DropTestAnswered ==
    /\ call.op = "predict_drop_test"
    /\ call.args.material_name \in DOMAIN material_properties

\* will_survive, impact_energy, material_capacity and safety_margin as stated
DropTestAsStated ==
    LET energy == RMul(Rat(call.args.weight * 981, 100000),
                       Rat(call.args.height_cm, 100))
        capacity ==
            Rat(material_properties[call.args.material_name].tensile_strength, 2)
        margin == RMul(RDiv(RSub(capacity, energy), capacity), RInt(100))
    IN  /\ call.result.impact_energy = energy
        /\ call.result.material_capacity = capacity
        /\ call.result.will_survive = RLt(energy, capacity)
        /\ call.result.safety_margin = (IF RLe(RInt(0), margin) THEN margin ELSE RInt(0))
        /\ ~call.result.will_survive => call.result.safety_margin = RInt(0)

\* C24 as stated: for a material in the strength-properties table,
\* will_survive is true exactly when impact_energy = weight*9.81*(height_cm/100)
\* is strictly less than material_capacity = tensile_strength*0.5, and
\* safety_margin = max(0, (capacity - energy)/capacity*100); hence
\* safety_margin is in [0,100), and it is 0 whenever will_survive is false.
C24_DropTestMarginBelowHundred ==
    DropTestAnswered =>
        /\ DropTestAsStated
        /\ RLe(RInt(0), call.result.safety_margin)
        /\ RLt(call.result.safety_margin, RInt(100))

\* C24 as amended: the same, with safety_margin in [0,100] for a weight and
\* a drop height that are not negative; it is 100 when the impact energy is
\* zero.
C24_DropTestMargin ==
    DropTestAnswered =>
        /\ DropTestAsStated
        /\ RLe(RInt(0), call.result.safety_margin)
        /\ RLe(call.result.safety_margin, RInt(100))
        /\ call.result.impact_energy = RInt(0)
               => call.result.safety_margin = RInt(100)

\* a drop the material survives with part of its capacity to spare
C24_Witness ==
    /\ DropTestAnswered
    /\ call.result.will_survive
    /\ RLt(RInt(0), call.result.safety_margin)
    /\ RLt(call.result.safety_margin, RInt(100))

(***************************************************************************)
(* Properties of optimize_packaging                                        *)
(***************************************************************************)
PipelineAnswered == call.op = "optimize_packaging"

StatedOrder ==
    <<"validate_product_input", "optimize", "select", "predict", "analyze">>

\* what the Dimension Planner returns for the request's product
PlannersBox(data) ==
    optimize(data.length, data.width, data.height, data.weight,
             Get(data, "fragility", 3))

\* what the Material Selector returns for the request's product
SelectorsWinner(data) ==
    select(materials, category_priorities, data.category, data.weight,
           Get(data, "fragility", 3), Get(data, "recyclable", TRUE)).result

\* C25: in optimize_packaging the steps run in the order validate, Dimension
\* Planner, Material Selector, Strength Evaluator, Sustainability Analyzer:
\* no calculator runs when validation rejects the input (the request ends
\* with an error), the Strength Evaluator receives exactly the planner's box
\* dimensions and the name of the selector's winning material, and the
\* Sustainability Analyzer receives the unpadded input dimensions as
\* original, the planner's box as optimized and the selector's winning record.
C25_PipelineOrder ==
    PipelineAnswered =>
        LET data == call.args.data
            steps == call.result.steps
        IN  /\ Len(steps) >= 1
            /\ \A i \in 1..Min(Len(steps), Len(StatedOrder)) : steps[i] = StatedOrder[i]
            /\ ~validate_product_input(data).is_valid
                   => /\ steps = <<"validate_product_input">>
                      /\ call.result.status = 400
                      /\ "error" \in DOMAIN call.result.body
            /\ validate_product_input(data).is_valid => Len(steps) >= 3
            /\ Len(steps) >= 4
                   => /\ call.result.received.predict.dimensions = PlannersBox(data)
                      /\ call.result.received.predict.material_name
                             = SelectorsWinner(data).name
            /\ Len(steps) >= 5
                   => /\ call.result.received.analyze.original_dims
                             = [length |-> data.length, width |-> data.width,
                                height |-> data.height]
                      /\ call.result.received.analyze.optimized_dims
                             = PlannersBox(data)
                      /\ call.result.received.analyze.material
                             = SelectorsWinner(data)

\* a request that went through all the steps, with a box that is not the
\* product's own size
C25_Witness ==
    /\ PipelineAnswered
    /\ call.result.status = 200
    /\ Len(call.result.steps) >= 5
    /\ call.result.received.predict.dimensions
           # call.result.received.analyze.original_dims
    /\ call.result.body.optimized_design.dimensions
           = call.result.received.predict.dimensions

(***************************************************************************)
(* The overall score of SustainabilityAnalyzer.analyze                     *)
(***************************************************************************)
AnalyzeAnswered == call.op = "analyze" /\ ~IsError(call.result)

\* the weighted average of the four reported components, before clamping
WeightedAverage(result, material) ==
    RAdd(RAdd(RMul(Rat(1, 4), result.volume_reduction),
              RMul(Rat(1, 4), result.material_reduction_percentage)),
         RAdd(RMul(Rat(1, 4), result.co2_reduction_percentage),
              RMul(Rat(1, 4), RInt(Get(material, "sustainability_score", 80)))))

StatedRating(score) ==
    CASE RLe(RInt(90), score) -> "Exceptional"
      [] RLt(score, RInt(90)) /\ RLe(RInt(80), score) -> "Excellent"
      [] RLt(score, RInt(80)) /\ RLe(RInt(70), score) -> "Very Good"
      [] RLt(score, RInt(70)) /\ RLe(RInt(60), score) -> "Good"
      [] RLt(score, RInt(60)) /\ RLe(RInt(50), score) -> "Fair"
      [] OTHER -> "Needs Improvement"

\* C26: analyze computes sustainability_score as clamp(0.25*volume_reduction
\* + 0.25*material_reduction_percentage + 0.25*co2_reduction_percentage
\* + 0.25*material sustainability_score, 0, 100), using the already clamped
\* volume_reduction, and maps it to environmental_rating by the thresholds
\* >=90 Exceptional, >=80 Excellent, >=70 Very Good, >=60 Good, >=50 Fair,
\* otherwise Needs Improvement.
C26_ScoreAndRating ==
    AnalyzeAnswered =>
        LET average == WeightedAverage(call.result, call.args.material)
        IN  /\ RLe(RInt(0), call.result.volume_reduction)
            /\ RLe(call.result.volume_reduction, RInt(95))
            /\ call.result.sustainability_score
                   = (IF RLt(average, RInt(0)) THEN RInt(0)
                      ELSE IF RLt(RInt(100), average) THEN RInt(100)
                      ELSE average)
            /\ call.result.environmental_rating
                   = StatedRating(call.result.sustainability_score)

\* an analysis whose weighted average is negative and is reported as 0
C26_Witness ==
    /\ AnalyzeAnswered
    /\ RLt(WeightedAverage(call.result, call.args.material), RInt(0))
    /\ call.result.sustainability_score = RInt(0)
    /\ call.result.environmental_rating = "Needs Improvement"

(***************************************************************************)
(* The savings reported by the pipeline                                    *)
(***************************************************************************)
\* a request with positive dimensions and weight and a fragility in 1..5
\* that the pipeline carried through to the analyzer
PipelineAnalyzed ==
    /\ PipelineAnswered
    /\ call.args.data.length > 0
    /\ call.args.data.width > 0
    /\ call.args.data.height > 0
    /\ call.args.data.weight > 0
    /\ Get(call.args.data, "fragility", 3) \in 1..5
    /\ Len(call.result.steps) >= 5

\* C27: in the pipeline (analyze called with the planner's box for the same
\* product and a catalog material), for every product with positive
\* dimensions and weight and fragility in 1..5, every optimized outer
\* dimension is strictly smaller than the baseline dimension (input + 10),
\* so material_saved_kg, co2_saved_kg, water_saved_liters and
\* energy_saved_kwh are all strictly positive and
\* material_reduction_percentage is in (0,100).
C27_PipelineSavesMaterial ==
    PipelineAnalyzed =>
        LET data == call.args.data
            box == call.result.received.analyze.optimized_dims
        IN  /\ call.result.status = 200
            /\ \E i \in DOMAIN MaterialsInit :
                   MaterialsInit[i].material.name
                       = call.result.received.analyze.material.name
            /\ box.length < data.length + 20
            /\ box.width < data.width + 20
            /\ box.height < data.height + 20
            /\ RLt(RInt(0), call.result.body.sustainability.material_saved_kg)
            /\ RLt(RInt(0), call.result.body.sustainability.co2_saved_kg)
            /\ RLt(RInt(0), call.result.body.sustainability.water_saved_liters)
            /\ RLt(RInt(0), call.result.body.sustainability.energy_saved_kwh)
            /\ RLt(RInt(0),
                   call.result.body.sustainability.material_reduction_percentage)
            /\ RLt(call.result.body.sustainability.material_reduction_percentage,
                   RInt(100))

\* a small product in the heaviest padding band: the box is held at the
\* 5 cm minimum or padded by more than 5 cm and still below the baseline
C27_Witness ==
    /\ PipelineAnalyzed
    /\ call.args.data.weight > 10000
    /\ Get(call.args.data, "fragility", 3) = 5
    /\ call.result.received.analyze.optimized_dims.height
           >= call.args.data.height + 11

(***************************************************************************)
(* The strength report of the pipeline                                     *)
(***************************************************************************)
PipelineSucceeded == PipelineAnswered /\ call.result.status = 200

NamesWithoutEntry == {"Molded Pulp (Recycled Paper)", "Honeycomb Cardboard"}

\* the report the Strength Evaluator gives the request's box under a name
ReportFor(name) ==
    predict(material_properties, call.result.body.optimized_design.dimensions,
            name, call.args.data.weight, Get(call.args.data, "fragility", 3))

\* the three raw scores of a table entry for the request's box
ScoresOf(entry) ==
    LET dims == call.result.body.optimized_design.dimensions
        sf == strength_factor(vw_ratio(dims.length * dims.width * dims.height,
                                       call.args.data.weight))
        ff == fragility_factor(Get(call.args.data, "fragility", 3),
                               entry.base_strength)
        gf == geometry_factor(aspect_ratio(dims))
    IN  [strength |-> Clamped((entry.base_strength * sf * ff * gf) \div 1000000, 60, 98),
         durability |-> Clamped((entry.durability * sf) \div 100, 60, 98),
         compression_resistance |-> Clamped((entry.compression * gf) \div 100, 65, 98)]

\* C28: 'Molded Pulp (Recycled Paper)' and 'Honeycomb Cardboard', which
\* select can return, have no entry in the strength-properties table, so
\* whenever the pipeline selects one of them the Strength Evaluator's result
\* equals the result for 'Recycled Cardboard' (base strength 0.75,
\* compression 0.70, durability 0.80) with the same box, weight and
\* fragility; every other selectable name is evaluated with its own entry.
C28_UnlistedNamesUseRecycledCardboard ==
    /\ NamesWithoutEntry \cap DOMAIN material_properties = {}
    /\ material_properties["Recycled Cardboard"] = StrengthProps(75, 150, 70, 80)
    /\ \A i \in DOMAIN materials :
           materials[i].material.name \notin NamesWithoutEntry
               => materials[i].material.name \in DOMAIN material_properties
    /\ PipelineSucceeded =>
           LET name == call.result.body.optimized_design.material.name
               report == call.result.body.optimized_design.strength_analysis
               entry == IF name \in NamesWithoutEntry
                        THEN StrengthProps(75, 150, 70, 80)
                        ELSE material_properties[name]
           IN  /\ name \in NamesWithoutEntry => report = ReportFor("Recycled Cardboard")
               /\ report.strength = ScoresOf(entry).strength
               /\ report.durability = ScoresOf(entry).durability
               /\ report.compression_resistance = ScoresOf(entry).compression_resistance
               /\ report.analysis.material_rating = rate_material(entry.base_strength)

\* a request for which the selector returned a name the table lacks
C28_Witness ==
    /\ PipelineSucceeded
    /\ call.result.body.optimized_design.material.name \in NamesWithoutEntry
    /\ call.result.body.optimized_design.strength_analysis.analysis.material_rating
           = "Standard"

\* a valid request for a product of more than 15 and at most 20 kg
HeavyProductAnswered ==
    /\ PipelineAnswered
    /\ call.args.data.length > 0
    /\ call.args.data.width > 0
    /\ call.args.data.height > 0
    /\ call.args.data.weight > 15000
    /\ call.args.data.weight <= 20000
    /\ Get(call.args.data, "fragility", 3) \in 1..5

\* the Strength Evaluator asked about a box for such a product under the
\* name the pipeline hands it
HeavyBoxEvaluated ==
    /\ call.op = "predict"
    /\ call.args.material_name = "Honeycomb Cardboard"
    /\ call.args.dimensions.length > 0
    /\ call.args.dimensions.width > 0
    /\ call.args.dimensions.height > 0
    /\ call.args.weight > 15000
    /\ call.args.weight <= 20000
    /\ call.args.fragility \in 1..5

\* C29: for every request with weight in (15, 20] kg (any dimensions,
\* category, fragility 1..5 and recyclable flag), the pipeline selects
\* 'Honeycomb Cardboard' with an empty alternatives list, and the strength
\* report has strength < 80 and needs_reinforcement = true.  The report is
\* also checked on the evaluator's own calls, which reach boxes of every size.
C29_HeavyProductsGetHoneycomb ==
    /\ HeavyProductAnswered =>
           /\ call.result.status = 200
           /\ call.result.body.optimized_design.material.name = "Honeycomb Cardboard"
           /\ call.result.body.optimized_design.material.alternatives = << >>
           /\ call.result.body.optimized_design.strength_analysis.strength < 80
           /\ call.result.body.optimized_design.strength_analysis.needs_reinforcement
    /\ HeavyBoxEvaluated =>
           /\ call.result.strength < 80
           /\ call.result.needs_reinforcement

\* a heavy product in a roomy box: the strength is above 70 and the
\* reinforcement is asked for because of the weight
C29_Witness ==
    /\ HeavyProductAnswered
    /\ call.result.status = 200
    /\ call.result.body.optimized_design.strength_analysis.strength >= 70
    /\ call.result.body.optimized_design.strength_analysis.reinforcement_reason
           = "Heavy product requires stronger material"

(***************************************************************************)
(* The category criterion of MaterialSelector.select                       *)
(***************************************************************************)
\* the category the call scored with, and its preferred keys
ScoredCategory == normalize_category(call.args.category)

PreferredKeys ==
    SeqToSet(category_prefs(category_priorities, ScoredCategory).preferred_materials)

\* what the five other criteria gave an entry, in tenths of a point
OtherCriteria(entry) ==
    weight_points(call.args.weight, entry.material).points
    + fragility_points(call.args.fragility, entry.material).points
    + sustainability_points(entry.material).points
    + recyclability_points(call.args.recyclable_priority, entry.material).points
    + cost_points(entry.material).points

\* C30: with the fixed catalog, the category-affinity contribution of every
\* scored material is either 15 (its key is in the category's preferred
\* list) or 5: the 10-point branch, which requires a non-preferred material
\* to compare equal to a preferred material's record, is never taken for
\* any category.
C30_CategoryPointsFifteenOrFive ==
    /\ \A c \in DOMAIN category_priorities :
           SeqToSet(category_priorities[c].preferred_materials)
               \subseteq {materials[i].key : i \in DOMAIN materials}
    /\ \A i, j \in DOMAIN materials :
           materials[i].material = materials[j].material => i = j
    /\ call.op = "select" =>
           \A i \in DOMAIN call.material_scores :
               LET entry == call.material_scores[i]
                   contribution == entry.score - OtherCriteria(entry)
               IN  /\ contribution = (IF entry.key \in PreferredKeys THEN 150 ELSE 50)
                   /\ <<"Suitable for", ScoredCategory, "category">>
                          \notin SeqToSet(entry.reasons)
                   /\ entry.key \in PreferredKeys
                          <=> <<"Optimized for", ScoredCategory, "category">>
                                  \in SeqToSet(entry.reasons)

\* a select that scored a preferred material and one that is not preferred
C30_Witness ==
    /\ call.op = "select"
    /\ \E i, j \in DOMAIN call.material_scores :
           /\ call.material_scores[i].key \in PreferredKeys
           /\ call.material_scores[j].key \notin PreferredKeys
           /\ call.material_scores[j].score - OtherCriteria(call.material_scores[j]) = 50

====
